---------------------------- MODULE Spec2Model ----------------------------
(***************************************************************************)
(* A model of the Sanetaka toolchain (ky0422/sanetaka): the tree-walking   *)
(* IR interpreter (sntk_ir), the Pratt parser (sntk_core), the type        *)
(* checker and the compiler (sntk_compiler), the lexer (sntk_core).  Every *)
(* subsystem is a state machine of its own (SpecInterp, SpecParser,        *)
(* SpecChecker, SpecCompiler, SpecLexer);                                  *)
(* the variables of the other subsystems stay idle.                        *)
(***************************************************************************)
EXTENDS Integers, Sequences, FiniteSets, TLC

VARIABLES
    instructions,   \* IrInterpreter.instructions
    environment,    \* IrInterpreter.environment
    ipc,            \* position of the `for` loop of IrInterpreter::eval
    iresult,        \* what IrInterpreter::eval has returned so far
    out,            \* the lines written by the print builtin
    chk_call,       \* the arguments of a call of the checker
    chk_result,     \* what the call has returned
    parser,         \* the Parser: its lexer, current_token, peek_token, errors
    program,        \* the Program that parse_program is building
    presult,        \* whether parse_program has returned, or how it died
    compiler,       \* the Compiler: its program and its code
    cpc,            \* position of the `for` loop of compile_program
    cresult,        \* what compile_program has returned so far
    lexer,          \* the Lexer: input, position, read_position, current_char, current_position
    tokens,         \* the tokens that the calls of Lexer::next_token have returned, in order
    lstatus         \* whether the lexer is in use, or how a call died

ivars == <<instructions, environment, ipc, iresult, out>>
cvars == <<chk_call, chk_result>>
pvars == <<parser, program, presult>>
kvars == <<compiler, cpc, cresult>>
lvars == <<lexer, tokens, lstatus>>

vars == <<instructions, environment, ipc, iresult, out, chk_call, chk_result,
          parser, program, presult, compiler, cpc, cresult, lexer, tokens, lstatus>>

Idle == [tag |-> "idle"]
Running == [tag |-> "running"]

\* a subsystem that is not the one running
InterpIdle ==
    /\ instructions = <<>>
    /\ environment = [values |-> <<>>, parent |-> [some |-> FALSE]]
    /\ ipc = 0
    /\ iresult = Idle
    /\ out = <<>>

CheckerIdle ==
    /\ chk_call = Idle
    /\ chk_result = Idle

ParserIdle ==
    /\ parser = Idle
    /\ program = Idle
    /\ presult = Idle

CompilerIdle ==
    /\ compiler = Idle
    /\ cpc = 0
    /\ cresult = Idle

LexerIdle ==
    /\ lexer = Idle
    /\ tokens = <<>>
    /\ lstatus = Idle

NotInterp == <<cvars, pvars, kvars, lvars>>
NotChecker == <<ivars, pvars, kvars, lvars>>
NotParser == <<ivars, cvars, kvars, lvars>>
NotCompiler == <<ivars, cvars, pvars, lvars>>
NotLexer == <<ivars, cvars, pvars, kvars>>

\* Option<T>
None == [some |-> FALSE]
Some(x) == [some |-> TRUE, v |-> x]

(***************************************************************************)
(* sntk_ir: values, IR expressions, instructions                           *)
(***************************************************************************)
TNumber == [tag |-> "Number"]
TString == [tag |-> "String"]
TBoolean == [tag |-> "Boolean"]
TUnknown == [tag |-> "Unknown"]
TArray(t) == [tag |-> "Array", elem |-> t]
TFn(generics, parameters, return_type) ==
    [tag |-> "Fn", generics |-> generics, parameters |-> parameters, return_type |-> return_type]
TCustom(name) == [tag |-> "Custom", name |-> name]

Number(n) == [tag |-> "Number", n |-> n]
String(s) == [tag |-> "String", s |-> s]
Boolean(b) == [tag |-> "Boolean", b |-> b]
Array(elements) == [tag |-> "Array", elements |-> elements]
Function(parameters, body, return_type, env) ==
    [tag |-> "Function", parameters |-> parameters, body |-> body,
     return_type |-> return_type, environment |-> env]
Parameter(name, data_type, spread) == [name |-> name, data_type |-> data_type, spread |-> spread]

Identifier(name) == [tag |-> "Identifier", name |-> name]
Literal(value) == [tag |-> "Literal", value |-> value]
Block(block) == [tag |-> "Block", block |-> block]
If(condition, consequence, alternative) ==
    [tag |-> "If", condition |-> condition, consequence |-> consequence, alternative |-> alternative]
Call(function, arguments) == [tag |-> "Call", function |-> function, arguments |-> arguments]
Index(left, index) == [tag |-> "Index", left |-> left, index |-> index]
Prefix(operator, right) == [tag |-> "Prefix", operator |-> operator, right |-> right]
Infix(left, operator, right) == [tag |-> "Infix", left |-> left, operator |-> operator, right |-> right]

StoreName(name, expression) == [tag |-> "StoreName", name |-> name, expression |-> expression]
Return(expression) == [tag |-> "Return", expression |-> expression]
Expression(expression) == [tag |-> "Expression", expression |-> expression]
NoneInstruction == [tag |-> "None"]

\* Result<LiteralValue> together with what has been printed so far
Ok(value, o) == [tag |-> "Ok", value |-> value, out |-> o]
Err(kind, arg, o) == [tag |-> "Err", kind |-> kind, arg |-> arg, out |-> o]
Panic(why, o) == [tag |-> "Panic", why |-> why, out |-> o]

(***************************************************************************)
(* IrEnvironment: a map and a cloned parent                                *)
(***************************************************************************)
EmptyMap == [n \in {} |-> None]

IrEnvironmentNew(parent) == [values |-> EmptyMap, parent |-> parent]

\* a lookup that asks the parent frames before the current one
RECURSIVE IrEnvironmentGetParentFirst(_, _)
IrEnvironmentGetParentFirst(env, name) ==
    IF env.parent.some /\ IrEnvironmentGetParentFirst(env.parent.v, name).some
    THEN IrEnvironmentGetParentFirst(env.parent.v, name)
    ELSE IF name \in DOMAIN env.values THEN [some |-> TRUE, v |-> env.values[name]]
    ELSE [some |-> FALSE]

RECURSIVE IrEnvironmentGet(_, _)
IrEnvironmentGet(env, name) ==
    IF name \in DOMAIN env.values THEN Some(env.values[name])
    ELSE IF env.parent.some THEN IrEnvironmentGet(env.parent.v, name)
    ELSE None

IrEnvironmentSet(env, name, value) ==
    [env EXCEPT !.values =
        [n \in (DOMAIN env.values) \cup {name} |-> IF n = name THEN value ELSE env.values[n]]]

(***************************************************************************)
(* The builtin registry (sntk_ir::builtin): print writes its arguments and *)
(* returns Boolean(false).                                                 *)
(***************************************************************************)
get_builtin_function(name) == IF name = "print" THEN Some("print") ELSE None

CallBuiltin(builtin, arguments, o) == Ok(Boolean(FALSE), Append(o, arguments))

(***************************************************************************)
(* f64 numbers: a number is a normalised fraction <<n, d>> with d >= 0;    *)
(* d = 0 holds the non-finite values (<<1,0>> = inf, <<-1,0>> = -inf,      *)
(* <<0,0>> = NaN).  The sign of zero is not kept.                          *)
(***************************************************************************)
Abs(n) == IF n < 0 THEN -n ELSE n
Sgn(n) == IF n < 0 THEN -1 ELSE IF n > 0 THEN 1 ELSE 0

RECURSIVE Gcd(_, _)
Gcd(a, b) == IF b = 0 THEN a ELSE Gcd(b, a % b)

Norm(n, d) ==
    IF d = 0 THEN <<Sgn(n), 0>>
    ELSE LET g == Gcd(Abs(n), Abs(d)) IN <<(Sgn(d) * n) \div g, Abs(d) \div g>>

NaN == <<0, 0>>
IsNaN(x) == x = NaN
IsInf(x) == x[2] = 0 /\ x[1] # 0
F64(n) == <<n, 1>>
F64Neg(x) == <<-x[1], x[2]>>
F64Add(x, y) ==
    IF IsNaN(x) \/ IsNaN(y) THEN NaN
    ELSE IF IsInf(x) /\ IsInf(y) THEN (IF x = y THEN x ELSE NaN)
    ELSE IF IsInf(x) THEN x
    ELSE IF IsInf(y) THEN y
    ELSE Norm(x[1] * y[2] + y[1] * x[2], x[2] * y[2])
F64Sub(x, y) == F64Add(x, F64Neg(y))
F64Mul(x, y) == Norm(x[1] * y[1], x[2] * y[2])
F64Div(x, y) == F64Mul(x, Norm(y[2], y[1]))
F64Eq(x, y) == ~IsNaN(x) /\ ~IsNaN(y) /\ x = y
F64Lt(x, y) ==
    /\ ~IsNaN(x)
    /\ ~IsNaN(y)
    /\ IF IsInf(x) /\ IsInf(y) THEN x[1] < y[1] ELSE x[1] * y[2] < y[1] * x[2]
F64Le(x, y) == F64Lt(x, y) \/ F64Eq(x, y)

\* strings are sequences of code points; Rust compares them lexicographically
RECURSIVE StrLt(_, _)
StrLt(a, b) ==
    IF b = <<>> THEN FALSE
    ELSE IF a = <<>> THEN TRUE
    ELSE IF Head(a) # Head(b) THEN Head(a) < Head(b)
    ELSE StrLt(Tail(a), Tail(b))
StrLe(a, b) == a = b \/ StrLt(a, b)

(***************************************************************************)
(* IrInterpreter: eval, last, eval_instruction, eval_expression            *)
(***************************************************************************)
RECURSIVE Eval(_, _, _), Last(_, _, _), EvalInstruction(_, _, _), EvalExpression(_, _, _),
          EvalAll(_, _, _), EvalCall(_, _, _, _)

\* CallCallee with the builtin registry consulted before the environment
CallCalleeBuiltinFirst(function, arguments, env, o) ==
    IF function.tag = "Identifier" THEN
        LET builtin == get_builtin_function(function.name)
            bound == IrEnvironmentGet(env, function.name)
        IN
        IF builtin.some THEN [early |-> TRUE, r |-> CallBuiltin(builtin.v, arguments, o)]
        ELSE IF bound.some THEN [early |-> FALSE, r |-> Ok(bound.v, o)]
        ELSE [early |-> TRUE, r |-> Err("UndefinedVariable", function.name, o)]
    ELSE [early |-> FALSE, r |-> EvalExpression(function, env, o)]

\* the callee of a Call: a bound value, or the early return of line 174
CallCallee(function, arguments, env, o) ==
    IF function.tag = "Identifier" THEN
        LET bound == IrEnvironmentGet(env, function.name) IN
        IF bound.some THEN [early |-> FALSE, r |-> Ok(bound.v, o)]
        ELSE LET builtin == get_builtin_function(function.name) IN
             IF builtin.some THEN [early |-> TRUE, r |-> CallBuiltin(builtin.v, arguments, o)]
             ELSE [early |-> TRUE, r |-> Err("UndefinedVariable", function.name, o)]
    ELSE [early |-> FALSE, r |-> EvalExpression(function, env, o)]

\* the environment the body of a called function value runs in
CallEnvironment(captured, env) ==
    IF captured.some THEN captured.v ELSE IrEnvironmentNew(Some(env))

\* for (parameter, argument) in parameters.iter().zip(arguments.iter())
RECURSIVE BindParameters(_, _, _)
BindParameters(env, parameters, arguments) ==
    IF parameters = <<>> \/ arguments = <<>> THEN env
    ELSE BindParameters(IrEnvironmentSet(env, Head(parameters).name, Head(arguments)),
                        Tail(parameters), Tail(arguments))

\* what a Call hands back: a returned function value gets a fresh child of
\* its own captured environment or, without one, of `call_env`
ReturnedValue(value, call_env) ==
    IF value.tag = "Function" THEN
        [value EXCEPT !.environment =
            Some(IrEnvironmentNew(Some(IF value.environment.some THEN value.environment.v
                                       ELSE call_env)))]
    ELSE value

EvalCall(function, arguments, env, o) ==
    LET args == EvalAll(arguments, env, o) IN
    IF args.tag # "Ok" THEN args
    ELSE
    LET callee == CallCallee(function, args.value, env, args.out) IN
    IF callee.early \/ callee.r.tag # "Ok" THEN callee.r
    ELSE
    LET f == callee.r.value
        o1 == callee.r.out
    IN
    IF f.tag # "Function" THEN Err("NotAFunction", f, o1)
    ELSE
    LET call_env == BindParameters(CallEnvironment(f.environment, env), f.parameters, args.value)
        ran == Eval(f.body, call_env, o1)
    IN
    IF ran.tag # "Ok" THEN ran
    ELSE
    LET last == Last(f.body, ran.value, ran.out) IN
    IF last.tag # "Ok" THEN last
    ELSE Ok(ReturnedValue(last.value, call_env), last.out)

\* the elements of a list, left to right, stopping at the first error
EvalAll(expressions, env, o) ==
    IF expressions = <<>> THEN Ok(<<>>, o)
    ELSE LET first == EvalExpression(Head(expressions), env, o) IN
         IF first.tag # "Ok" THEN first
         ELSE LET rest == EvalAll(Tail(expressions), env, first.out) IN
              IF rest.tag # "Ok" THEN rest
              ELSE Ok(<<first.value>> \o rest.value, rest.out)

\* `index as usize` and array.get(index)
EvalIndex(array, index, env, o) ==
    IF IsInf(index) /\ index[1] > 0 THEN Err("IndexOutOfBounds", "usize::MAX", o)
    ELSE LET i == IF index[2] = 0 \/ index[1] < 0 THEN 0 ELSE index[1] \div index[2] IN
         IF i < Len(array) THEN EvalExpression(array[i + 1], env, o)
         ELSE Err("IndexOutOfBounds", i, o)

EvalPrefix(operator, right, o) ==
    IF operator = "Minus" /\ right.tag = "Number" THEN Ok(Number(F64Neg(right.n)), o)
    ELSE IF operator = "Bang" /\ right.tag = "Boolean" THEN Ok(Boolean(~right.b), o)
    ELSE Err("InvalidOperator", operator, o)

EvalInfix(left, operator, right, o) ==
    IF left.tag = "Number" /\ right.tag = "Number" THEN
        CASE operator = "Plus" -> Ok(Number(F64Add(left.n, right.n)), o)
          [] operator = "Minus" -> Ok(Number(F64Sub(left.n, right.n)), o)
          [] operator = "Asterisk" -> Ok(Number(F64Mul(left.n, right.n)), o)
          [] operator = "Slash" -> Ok(Number(F64Div(left.n, right.n)), o)
          [] operator = "EQ" -> Ok(Boolean(F64Eq(left.n, right.n)), o)
          [] operator = "NEQ" -> Ok(Boolean(~F64Eq(left.n, right.n)), o)
          [] operator = "LT" -> Ok(Boolean(F64Lt(left.n, right.n)), o)
          [] operator = "LTE" -> Ok(Boolean(F64Le(left.n, right.n)), o)
          [] operator = "GT" -> Ok(Boolean(F64Lt(right.n, left.n)), o)
          [] operator = "GTE" -> Ok(Boolean(F64Le(right.n, left.n)), o)
          [] OTHER -> Err("InvalidOperator", operator, o)
    ELSE IF left.tag = "String" /\ right.tag = "String" THEN
        CASE operator = "Plus" -> Ok(String(left.s \o right.s), o)
          [] operator = "EQ" -> Ok(Boolean(left.s = right.s), o)
          [] operator = "NEQ" -> Ok(Boolean(left.s # right.s), o)
          [] operator = "LT" -> Ok(Boolean(StrLt(left.s, right.s)), o)
          [] operator = "LTE" -> Ok(Boolean(StrLe(left.s, right.s)), o)
          [] operator = "GT" -> Ok(Boolean(StrLt(right.s, left.s)), o)
          [] operator = "GTE" -> Ok(Boolean(StrLe(right.s, left.s)), o)
          [] OTHER -> Err("InvalidOperator", operator, o)
    ELSE IF left.tag = "Boolean" /\ right.tag = "Boolean" THEN
        CASE operator = "EQ" -> Ok(Boolean(left.b = right.b), o)
          [] operator = "NEQ" -> Ok(Boolean(left.b # right.b), o)
          [] OTHER -> Err("InvalidOperator", operator, o)
    ELSE Err("InvalidOperands", <<left, right, operator>>, o)

EvalExpression(expression, env, o) ==
    CASE expression.tag = "Identifier" ->
            LET bound == IrEnvironmentGet(env, expression.name) IN
            IF bound.some THEN Ok(bound.v, o)
            ELSE Err("UndefinedVariable", expression.name, o)
      [] expression.tag = "Literal" ->
            IF expression.value.tag = "Array" THEN
                LET array == EvalAll(expression.value.elements, env, o) IN
                IF array.tag # "Ok" THEN array
                ELSE Ok(Array([i \in 1..Len(array.value) |-> Literal(array.value[i])]), array.out)
            ELSE Ok(expression.value, o)
      [] expression.tag = "Block" ->
            LET ran == Eval(expression.block, IrEnvironmentNew(Some(env)), o) IN
            IF ran.tag # "Ok" THEN ran
            ELSE Last(expression.block, ran.value, ran.out)
      [] expression.tag = "If" ->
            LET condition == EvalExpression(expression.condition, env, o) IN
            IF condition.tag # "Ok" THEN condition
            ELSE IF condition.value.tag = "Boolean" /\ condition.value.b THEN
                EvalExpression(expression.consequence, env, condition.out)
            ELSE IF condition.value.tag = "Boolean" /\ ~condition.value.b THEN
                IF expression.alternative.some
                THEN EvalExpression(expression.alternative.v, env, condition.out)
                ELSE Ok(Boolean(FALSE), condition.out)
            ELSE Panic("unreachable", condition.out)
      [] expression.tag = "Call" ->
            EvalCall(expression.function, expression.arguments, env, o)
      [] expression.tag = "Index" ->
            LET left == EvalExpression(expression.left, env, o) IN
            IF left.tag # "Ok" THEN left
            ELSE LET index == EvalExpression(expression.index, env, left.out) IN
                 IF index.tag # "Ok" THEN index
                 ELSE IF left.value.tag = "Array" /\ index.value.tag = "Number"
                 THEN EvalIndex(left.value.elements, index.value.n, env, index.out)
                 ELSE Err("NotAnArray", left.value, index.out)
      [] expression.tag = "Prefix" ->
            LET right == EvalExpression(expression.right, env, o) IN
            IF right.tag # "Ok" THEN right
            ELSE EvalPrefix(expression.operator, right.value, right.out)
      [] expression.tag = "Infix" ->
            LET left == EvalExpression(expression.left, env, o) IN
            IF left.tag # "Ok" THEN left
            ELSE LET right == EvalExpression(expression.right, env, left.out) IN
                 IF right.tag # "Ok" THEN right
                 ELSE EvalInfix(left.value, expression.operator, right.value, right.out)

\* one instruction, a stored Block run in the interpreter's own environment
\* instead of a child of it
EvalInstructionInOwnScope(instruction, env, o) ==
    CASE instruction.tag = "StoreName" /\ instruction.expression.tag = "Block" ->
            LET ran == Eval(instruction.expression.block, env, o) IN
            IF ran.tag # "Ok" THEN ran
            ELSE LET value == Last(instruction.expression.block, ran.value, ran.out) IN
                 IF value.tag # "Ok" THEN value
                 ELSE Ok(IrEnvironmentSet(ran.value, instruction.name, value.value), value.out)
      [] instruction.tag = "StoreName" /\ instruction.expression.tag # "Block" ->
            LET value == EvalExpression(instruction.expression, env, o) IN
            IF value.tag # "Ok" THEN value
            ELSE Ok(IrEnvironmentSet(env, instruction.name, value.value), value.out)
      [] instruction.tag = "Expression" ->
            LET value == EvalExpression(instruction.expression, env, o) IN
            IF value.tag # "Ok" THEN value ELSE Ok(env, value.out)
      [] instruction.tag = "Return" -> Ok(env, o)
      [] instruction.tag = "None" -> Ok(env, o)

\* one instruction; Ok carries the interpreter's environment afterwards
EvalInstruction(instruction, env, o) ==
    CASE instruction.tag = "StoreName" ->
            LET value == EvalExpression(instruction.expression, env, o) IN
            IF value.tag # "Ok" THEN value
            ELSE Ok(IrEnvironmentSet(env, instruction.name, value.value), value.out)
      [] instruction.tag = "Expression" ->
            LET value == EvalExpression(instruction.expression, env, o) IN
            IF value.tag # "Ok" THEN value ELSE Ok(env, value.out)
      [] instruction.tag = "Return" -> Ok(env, o)
      [] instruction.tag = "None" -> Ok(env, o)

\* IrInterpreter::eval of a nested interpreter: every instruction in order
Eval(instrs, env, o) ==
    IF instrs = <<>> THEN Ok(env, o)
    ELSE LET first == EvalInstruction(Head(instrs), env, o) IN
         IF first.tag # "Ok" THEN first
         ELSE Eval(Tail(instrs), first.value, first.out)

\* the value of a list taken from its first Return instead of its last instruction
RECURSIVE LastOfFirstReturn(_, _, _)
LastOfFirstReturn(instrs, env, o) ==
    IF instrs = <<>> THEN Ok(Boolean(FALSE), o)
    ELSE IF Head(instrs).tag = "Return" THEN EvalExpression(Head(instrs).expression, env, o)
    ELSE LastOfFirstReturn(Tail(instrs), env, o)

\* IrInterpreter::last
Last(instrs, env, o) ==
    IF instrs = <<>> THEN Ok(Boolean(FALSE), o)
    ELSE LET instruction == instrs[Len(instrs)] IN
         IF instruction.tag = "Return" THEN EvalExpression(instruction.expression, env, o)
         ELSE Ok(Boolean(FALSE), o)

(***************************************************************************)
(* The programs the interpreter is run on: every instruction list of at    *)
(* most MaxInstr instructions of InstructionPool.                          *)
(***************************************************************************)
MaxInstr == 4

Num(n) == Literal(Number(F64(n)))
TFn0(return_type) == TFn(None, <<>>, return_type)

\* fn() -> number { return x; }
FnReturnX == Function(<<>>, <<Return(Identifier("x"))>>, TNumber, None)
\* fn() -> number { auto x = 2; return f(); }
FnCallF ==
    Function(<<>>, <<StoreName("x", Num(2)), Return(Call(Identifier("f"), <<>>))>>, TNumber, None)
\* fn() -> fn() -> number { auto x = 1; return fn() -> number { return x; }; }
FnMake ==
    Function(<<>>, <<StoreName("x", Num(1)), Return(Literal(FnReturnX))>>, TFn0(TNumber), None)
\* fn(a: number) -> number { return a; }
FnEcho == Function(<<Parameter("a", TNumber, FALSE)>>, <<Return(Identifier("a"))>>, TNumber, None)

InstructionPool ==
    { StoreName("x", Num(1)),
      StoreName("f", Literal(FnReturnX)),
      StoreName("g", Literal(FnCallF)),
      StoreName("make", Literal(FnMake)),
      StoreName("g", Call(Identifier("make"), <<>>)),
      StoreName("print", Literal(FnEcho)),
      StoreName("print", Num(5)),
      StoreName("r", Call(Identifier("print"), <<Num(3)>>)),
      Expression(Call(Identifier("print"), <<Call(Identifier("g"), <<>>)>>)) }

Programs == UNION { [1..n -> InstructionPool] : n \in 0..MaxInstr }

InitInterp ==
    /\ instructions \in Programs
    /\ environment = IrEnvironmentNew(None)
    /\ ipc = 1
    /\ iresult = Running
    /\ out = <<>>
    /\ CheckerIdle
    /\ ParserIdle
    /\ CompilerIdle
    /\ LexerIdle

\* one turn of the loop of IrInterpreter::eval, the instruction succeeding
EvalInstructionOk ==
    /\ iresult = Running
    /\ ipc <= Len(instructions)
    /\ LET r == EvalInstruction(instructions[ipc], environment, out) IN
       /\ r.tag = "Ok"
       /\ environment' = r.value
       /\ out' = r.out
       /\ ipc' = ipc + 1
    /\ UNCHANGED <<instructions, iresult, NotInterp>>

\* one turn of the loop, the instruction failing: `?` returns the error
EvalInstructionErr ==
    /\ iresult = Running
    /\ ipc <= Len(instructions)
    /\ LET r == EvalInstruction(instructions[ipc], environment, out) IN
       /\ r.tag # "Ok"
       /\ iresult' = [r EXCEPT !.out = <<>>]
       /\ out' = r.out
    /\ UNCHANGED <<instructions, environment, ipc, NotInterp>>

\* the loop is over: Ok(())
EvalReturn ==
    /\ iresult = Running
    /\ ipc > Len(instructions)
    /\ iresult' = [tag |-> "Ok"]
    /\ UNCHANGED <<instructions, environment, ipc, out, NotInterp>>

NextInterp == EvalInstructionOk \/ EvalInstructionErr \/ EvalReturn

SpecInterp == InitInterp /\ [][NextInterp]_vars

(***************************************************************************)
(* Claims about the interpreter                                            *)
(***************************************************************************)
PrintG == Expression(Call(Identifier("print"), <<Call(Identifier("g"), <<>>)>>))
PrintThree == StoreName("r", Call(Identifier("print"), <<Num(3)>>))

\* auto make = fn() { auto x = 1; return fn() { return x; }; }; auto g = make(); print(g());
ClosureProgram ==
    <<StoreName("make", Literal(FnMake)), StoreName("g", Call(Identifier("make"), <<>>)), PrintG>>

\* auto x = 1; auto f = fn() { return x; }; auto g = fn() { auto x = 2; return f(); }; print(g());
ShadowProgram ==
    <<StoreName("x", Num(1)), StoreName("f", Literal(FnReturnX)), StoreName("g", Literal(FnCallF)), PrintG>>

\* the same without the outer x: x exists only in the caller of f
CallerOnlyProgram ==
    <<StoreName("f", Literal(FnReturnX)), StoreName("g", Literal(FnCallF)), PrintG>>

Finished == iresult # Running

\* C1: closure correctness.  Once the program of the specification (make binds
\* x = 1 and returns fn() { return x; }; g = make(); print(g())) has been
\* evaluated, it has printed 1 and has raised no UndefinedVariable error.
C1_ClosureCorrectness ==
    (instructions = ClosureProgram /\ Finished) =>
        /\ iresult.tag = "Ok"
        /\ out = << <<Number(F64(1))>> >>

\* C4: lexical scoping.  A free identifier of a called function resolves to the
\* binding of its definition site: f, defined where x is 1 (or is unbound), never
\* yields the x = 2 that only its caller g binds, so no program prints 2, the
\* shadowing program prints 1 and the caller-only program prints nothing.
C4_LexicalScoping ==
    /\ \A i \in 1..Len(out) : out[i] # <<Number(F64(2))>>
    /\ (instructions = ShadowProgram /\ Finished) => out = << <<Number(F64(1))>> >>
    /\ (instructions = CallerOnlyProgram /\ Finished) => out = <<>>

\* C10: builtin precedence.  A step that evaluates a Call of the bare identifier
\* print while print is bound in the environment chain does not invoke the
\* builtin (nothing is printed) and calls the bound value: r = print(3) binds r
\* to what the bound function returns, or fails with NotAFunction when the bound
\* value is no function.  Only when print is unbound is the builtin invoked.
C10_BuiltinPrecedence ==
    [][(iresult = Running /\ ipc <= Len(instructions) /\ instructions[ipc] \in {PrintG, PrintThree}) =>
        LET bound == IrEnvironmentGet(environment, "print") IN
        /\ bound.some => out' = out
        /\ (bound.some /\ instructions[ipc] = PrintThree) =>
              IF bound.v = FnEcho
              THEN ipc' = ipc + 1 /\ IrEnvironmentGet(environment', "r") = Some(Number(F64(3)))
              ELSE iresult'.tag = "Err" /\ iresult'.kind = "NotAFunction"
        /\ (~bound.some /\ instructions[ipc] = PrintThree) =>
              /\ out' = Append(out, <<Number(F64(3))>>)
              /\ IrEnvironmentGet(environment', "r") = Some(Boolean(FALSE))
      ]_vars

\* C10 witness: r = print(3) has run with print shadowed by a bound function:
\* r holds the function's result and nothing was printed.
C10_Witness ==
    /\ IrEnvironmentGet(environment, "r") = Some(Number(F64(3)))
    /\ IrEnvironmentGet(environment, "print") = Some(FnEcho)
    /\ out = <<>>

(***************************************************************************)
(* sntk_compiler::checker: DeclaredTypes, CustomTypes, the type of an IR   *)
(* expression, custom-type resolution                                      *)
(***************************************************************************)
TypeOk(data_type) == [tag |-> "Ok", data_type |-> data_type]
TypeError(kind, args) == [tag |-> "Err", kind |-> kind, args |-> args]
TypePanic(why) == [tag |-> "Panic", why |-> why]

DeclaredTypesNew(parent) == [types |-> EmptyMap, parent |-> parent]

RECURSIVE DeclaredTypesGet(_, _)
DeclaredTypesGet(declares, name) ==
    IF name \in DOMAIN declares.types THEN Some(declares.types[name])
    ELSE IF declares.parent.some THEN DeclaredTypesGet(declares.parent.v, name)
    ELSE None

DeclaredTypesSet(declares, name, value) ==
    [declares EXCEPT !.types =
        [n \in (DOMAIN declares.types) \cup {name} |-> IF n = name THEN value ELSE declares.types[n]]]

CustomTypesNew(parent) == [types |-> EmptyMap, parent |-> parent]

RECURSIVE CustomTypesGet(_, _)
CustomTypesGet(customs, name) ==
    IF name \in DOMAIN customs.types THEN Some(customs.types[name])
    ELSE IF customs.parent.some THEN CustomTypesGet(customs.parent.v, name)
    ELSE None

CustomTypesSet(customs, name, value) ==
    [customs EXCEPT !.types =
        [n \in (DOMAIN customs.types) \cup {name} |-> IF n = name THEN value ELSE customs.types[n]]]

RECURSIVE custom_data_type(_, _)
custom_data_type(data_type, customs) ==
    CASE data_type.tag = "Custom" ->
            LET custom == CustomTypesGet(customs, data_type.name) IN
            IF custom.some THEN TypeOk(custom.v)
            ELSE TypeError("UndefinedType", <<data_type.name>>)
      [] data_type.tag = "Fn" ->
            LET return_type == custom_data_type(data_type.return_type, customs) IN
            IF return_type.tag # "Ok" THEN return_type
            ELSE TypeOk(TFn(data_type.generics, data_type.parameters, return_type.data_type))
      [] OTHER -> TypeOk(data_type)

RECURSIVE get_type_from_ir_expression(_, _, _, _), get_type_from_literal_value(_, _, _, _),
          ArrayElementType(_, _, _, _, _), CallArguments(_, _, _, _, _, _, _)

\* the loop over the elements of an array literal (checker.rs 233-246);
\* element_type is the type found so far
ArrayElementType(elements, element_type, declares, customs, data_type) ==
    IF elements = <<>> THEN TypeOk(element_type)
    ELSE LET element == get_type_from_ir_expression(Head(elements), declares, customs, data_type) IN
         IF element.tag # "Ok" THEN element
         ELSE IF element_type = TUnknown
         THEN ArrayElementType(Tail(elements), element.data_type, declares, customs, data_type)
         ELSE IF element_type # element.data_type
         THEN TypeError("ExpectedDataType", <<element_type, element.data_type>>)
         ELSE ArrayElementType(Tail(elements), element_type, declares, customs, data_type)

\* an array literal that takes the contextual type as its own
ArrayLiteralTypeAdoptsContext(element_type, data_type) ==
    IF data_type.some THEN TypeOk(data_type.v)
    ELSE IF element_type = TUnknown THEN TypeError("UnknownArrayType", <<>>)
    ELSE TypeOk(TArray(element_type))

\* what follows the loop (checker.rs 248-271)
ArrayLiteralType(element_type, data_type) ==
    IF data_type.some THEN
        IF element_type = TUnknown /\ data_type.v.tag # "Array" THEN TypePanic("unreachable")
        ELSE LET adopted == IF element_type = TUnknown THEN data_type.v.elem ELSE element_type IN
             IF data_type.v = TArray(adopted)
             THEN TypeError("ExpectedDataType", <<data_type.v, TArray(adopted)>>)
             ELSE TypeOk(TArray(adopted))
    ELSE IF element_type = TUnknown THEN TypeError("UnknownArrayType", <<>>)
    ELSE TypeOk(TArray(element_type))

get_type_from_literal_value(literal, declares, customs, data_type) ==
    CASE literal.tag = "Number" -> TypeOk(TNumber)
      [] literal.tag = "String" -> TypeOk(TString)
      [] literal.tag = "Boolean" -> TypeOk(TBoolean)
      [] literal.tag = "Array" ->
            LET element_type == ArrayElementType(literal.elements, TUnknown, declares, customs, data_type) IN
            IF element_type.tag # "Ok" THEN element_type
            ELSE ArrayLiteralType(element_type.data_type, data_type)
      [] literal.tag = "Function" ->
            LET block_return_type ==
                    get_type_from_ir_expression(Block(literal.body), declares, customs, data_type)
            IN
            IF block_return_type.tag # "Ok" THEN block_return_type
            ELSE LET function_type ==
                         TFn(None,
                             [i \in 1..Len(literal.parameters) |->
                                 <<literal.parameters[i].data_type, literal.parameters[i].spread>>],
                             block_return_type.data_type)
                 IN
                 IF literal.return_type # block_return_type.data_type
                 THEN TypeError("ExpectedDataType", <<literal.return_type, block_return_type.data_type>>)
                 ELSE IF data_type.some /\ data_type.v # function_type
                 THEN TypeError("ExpectedDataType", <<data_type.v, function_type>>)
                 ELSE TypeOk(function_type)

\* a Call checked by the number of arguments alone, whatever is spread
CallArgumentsIgnoresSpread(parameters, arguments, index, arguments_len, n_arguments, ctx, return_type) ==
    IF Len(parameters) # n_arguments
    THEN TypeError("ExpectedArguments", <<Len(parameters), n_arguments>>)
    ELSE TypeOk(return_type)

\* the loop over parameters.iter().zip(arguments.iter()) of a Call and the
\* arity test after it (checker.rs 131-164); arguments_len is the count so far
CallArguments(parameters, arguments, index, arguments_len, n_arguments, ctx, return_type) ==
    IF index > Len(parameters) \/ index > Len(arguments) THEN
        IF Len(parameters) # arguments_len
        THEN TypeError("ExpectedArguments", <<Len(parameters), n_arguments>>)
        ELSE TypeOk(return_type)
    ELSE LET argument_type ==
                 get_type_from_ir_expression(arguments[index], ctx.declares, ctx.customs, ctx.data_type)
             parameter == parameters[index][1]
             spread == parameters[index][2]
         IN
         IF argument_type.tag # "Ok" THEN argument_type
         ELSE IF parameter # argument_type.data_type
         THEN TypeError("ExpectedDataType", <<parameter, argument_type.data_type>>)
         ELSE IF spread THEN
             IF Len(parameters) # index
             THEN TypeError("ExpectedArguments", <<Len(parameters), n_arguments>>)
             ELSE TypeOk(return_type)
         ELSE CallArguments(parameters, arguments, index + 1, arguments_len, n_arguments, ctx, return_type)

ArithmeticOperators == {"Plus", "Minus", "Asterisk", "Slash", "Percent"}
ComparisonOperators == {"EQ", "NEQ", "LT", "GT", "LTE", "GTE"}

\* a Block typed by its first instruction instead of its last
ExpressionTypeFromFirstInstruction(expression, declares, customs, data_type) ==
    CASE expression.tag = "Literal" ->
            [early |-> FALSE, r |-> get_type_from_literal_value(expression.value, declares, customs, data_type)]
      [] expression.tag = "Block" /\ expression.block # <<>>
             /\ expression.block[1].tag \in {"Return", "StoreName"} ->
            [early |-> FALSE,
             r |-> get_type_from_ir_expression(expression.block[1].expression, declares, customs, data_type)]
      [] expression.tag = "Block" -> [early |-> TRUE, r |-> TypeOk(TBoolean)]
      [] OTHER -> [early |-> FALSE, r |-> TypeError("UndefinedIdentifier", <<>>)]

\* the match of get_type_from_ir_expression (checker.rs 83-216); data_type is
\* the contextual type after custom_data_type.  `early` marks the two returns
\* of the Block arm, which skip the resolution of line 218.
ExpressionType(expression, declares, customs, data_type) ==
    LET TypeOf(e) == get_type_from_ir_expression(e, declares, customs, data_type)
        Res(r) == [early |-> FALSE, r |-> r]
    IN
    CASE expression.tag = "Identifier" ->
            LET declared == DeclaredTypesGet(declares, expression.name) IN
            Res(IF declared.some THEN TypeOk(declared.v)
                ELSE TypeError("UndefinedIdentifier", <<expression.name>>))
      [] expression.tag = "Literal" ->
            Res(get_type_from_literal_value(expression.value, declares, customs, data_type))
      [] expression.tag = "Block" ->
            IF expression.block = <<>> THEN [early |-> TRUE, r |-> TypeOk(TBoolean)]
            ELSE LET instruction == expression.block[Len(expression.block)] IN
                 IF instruction.tag \in {"Return", "StoreName"}
                 THEN Res(TypeOf(instruction.expression))
                 ELSE [early |-> TRUE, r |-> TypeOk(TBoolean)]
      [] expression.tag = "If" ->
            LET condition_type == TypeOf(expression.condition) IN
            IF condition_type.tag # "Ok" THEN Res(condition_type)
            ELSE LET consequence_type == TypeOf(expression.consequence) IN
            IF consequence_type.tag # "Ok" THEN Res(consequence_type)
            ELSE LET alternative_type ==
                         IF expression.alternative.some THEN TypeOf(expression.alternative.v)
                         ELSE TypeOk(TBoolean)
            IN
            IF alternative_type.tag # "Ok" THEN Res(alternative_type)
            ELSE IF condition_type.data_type = TBoolean THEN
                IF consequence_type.data_type = alternative_type.data_type
                THEN Res(consequence_type)
                ELSE Res(TypeError("ExpectedDataType",
                                   <<consequence_type.data_type, alternative_type.data_type>>))
            ELSE Res(TypeError("ExpectedDataType", <<TBoolean, condition_type.data_type>>))
      [] expression.tag = "Call" ->
            LET function_type == TypeOf(expression.function) IN
            IF function_type.tag # "Ok" THEN Res(function_type)
            ELSE IF function_type.data_type.tag = "Fn" THEN
                Res(CallArguments(function_type.data_type.parameters, expression.arguments, 1,
                                  Len(expression.arguments), Len(expression.arguments),
                                  [declares |-> declares, customs |-> customs, data_type |-> data_type],
                                  function_type.data_type.return_type))
            ELSE Res(TypeError("NotCallable", <<function_type.data_type>>))
      [] expression.tag = "Index" ->
            LET left_type == TypeOf(expression.left) IN
            IF left_type.tag # "Ok" THEN Res(left_type)
            ELSE LET index_type == TypeOf(expression.index) IN
            IF index_type.tag # "Ok" THEN Res(index_type)
            ELSE IF left_type.data_type.tag = "Array" THEN
                IF index_type.data_type = TNumber THEN Res(TypeOk(left_type.data_type.elem))
                ELSE Res(TypeError("ExpectedDataType", <<TNumber, index_type.data_type>>))
            ELSE Res(TypeError("NotIndexable", <<left_type.data_type>>))
      [] expression.tag = "Prefix" -> Res(TypeOf(expression.right))
      [] expression.tag = "Infix" ->
            LET left_type == TypeOf(expression.left) IN
            IF left_type.tag # "Ok" THEN Res(left_type)
            ELSE LET right_type == TypeOf(expression.right) IN
            IF right_type.tag # "Ok" THEN Res(right_type)
            ELSE IF expression.operator \in ArithmeticOperators THEN
                IF left_type.data_type = TNumber /\ right_type.data_type = TNumber
                THEN Res(TypeOk(TNumber))
                ELSE Res(TypeError("ExpectedDataType", <<TNumber, left_type.data_type>>))
            ELSE IF expression.operator \in ComparisonOperators THEN
                IF left_type.data_type = right_type.data_type THEN Res(TypeOk(TBoolean))
                ELSE Res(TypeError("ExpectedDataType", <<left_type.data_type, right_type.data_type>>))
            ELSE Res(TypePanic("unreachable"))

get_type_from_ir_expression(expression, declares, customs, data_type) ==
    LET context == IF data_type.some THEN custom_data_type(data_type.v, customs) ELSE TypeOk(TUnknown) IN
    IF context.tag # "Ok" THEN context
    ELSE LET result == ExpressionType(expression, declares, customs,
                                      IF data_type.some THEN Some(context.data_type) ELSE None)
         IN
         IF result.early \/ result.r.tag # "Ok" THEN result.r
         ELSE custom_data_type(result.r.data_type, customs)

(***************************************************************************)
(* The calls the checker is run on                                         *)
(***************************************************************************)
MaxElems == 2

Str(s) == Literal(String(s))
Bool(b) == Literal(Boolean(b))

\* n: number and s: string in the current frame, f: fn(number) -> string in its parent
CheckerDeclares ==
    DeclaredTypesSet(
        DeclaredTypesSet(DeclaredTypesNew(Some(DeclaredTypesSet(DeclaredTypesNew(None), "f",
                                                               TFn(None, <<<<TNumber, FALSE>>>>, TString)))),
                         "n", TNumber),
        "s", TString)

\* type N = number; and, in an enclosing frame, type A = number[];
CheckerCustoms ==
    CustomTypesSet(CustomTypesNew(Some(CustomTypesSet(CustomTypesNew(None), "A", TArray(TNumber)))),
                   "N", TNumber)

ElementPool == { Num(1), Num(2), Str(<<104, 105>>), Bool(TRUE), Identifier("n") }

ArrayLiterals == { Literal(Array(e)) : e \in UNION { [1..n -> ElementPool] : n \in 0..MaxElems } }

OtherExpressions ==
    { Num(1), Str(<<104>>), Identifier("s"), Identifier("undeclared"),
      Block(<<Return(Num(1))>>), Block(<<Expression(Num(1))>>),
      If(Bool(TRUE), Num(1), Some(Str(<<104>>))), If(Bool(TRUE), Bool(TRUE), None),
      Call(Identifier("f"), <<Num(1)>>), Call(Identifier("f"), <<>>), Call(Identifier("n"), <<>>),
      Index(Literal(Array(<<Num(1)>>)), Num(0)), Index(Num(1), Num(0)),
      Prefix("Minus", Num(1)), Infix(Num(1), "Plus", Num(2)), Infix(Num(1), "LT", Str(<<104>>)),
      Infix(Num(1), "Bang", Num(2)),
      Literal(Function(<<Parameter("a", TNumber, FALSE)>>, <<Return(Num(1))>>, TNumber, None)) }

PrimitiveTypes == {TNumber, TString, TBoolean}

ContextTypes ==
    PrimitiveTypes \cup { TArray(t) : t \in PrimitiveTypes }
        \cup { TCustom("N"), TCustom("A"), TCustom("U"), TArray(TCustom("N")), TArray(TArray(TNumber)) }

\* the types custom_data_type is applied to
ResolvedTypes ==
    ContextTypes
        \cup { TFn(None, <<<<p, FALSE>>>>, r) : p \in {TNumber, TCustom("N")}, r \in {TString, TCustom("N"), TCustom("U")} }
        \cup { TArray(TCustom("U")), TFn(None, <<>>, TArray(TCustom("A"))) }

CheckerCalls ==
    { [fn |-> "get_type_from_ir_expression", expression |-> e, declares |-> CheckerDeclares,
       customs |-> CheckerCustoms, data_type |-> t] :
        e \in ArrayLiterals \cup OtherExpressions, t \in {None} \cup { Some(c) : c \in ContextTypes } }
    \cup
    { [fn |-> "custom_data_type", data_type |-> t, customs |-> c] :
        t \in ResolvedTypes, c \in {CheckerCustoms, CustomTypesNew(None)} }

InitChecker ==
    /\ chk_call \in CheckerCalls
    /\ chk_result = Running
    /\ InterpIdle
    /\ ParserIdle
    /\ CompilerIdle
    /\ LexerIdle

\* a call of get_type_from_ir_expression returns
GetTypeFromIrExpression ==
    /\ chk_result = Running
    /\ chk_call.fn = "get_type_from_ir_expression"
    /\ chk_result' = get_type_from_ir_expression(chk_call.expression, chk_call.declares,
                                                 chk_call.customs, chk_call.data_type)
    /\ UNCHANGED <<chk_call, NotChecker>>

\* a call of custom_data_type returns
CustomDataType ==
    /\ chk_result = Running
    /\ chk_call.fn = "custom_data_type"
    /\ chk_result' = custom_data_type(chk_call.data_type, chk_call.customs)
    /\ UNCHANGED <<chk_call, NotChecker>>

NextChecker == GetTypeFromIrExpression \/ CustomDataType

SpecChecker == InitChecker /\ [][NextChecker]_vars

(***************************************************************************)
(* Claims about the checker                                                *)
(***************************************************************************)
CheckedExpression ==
    chk_result # Running /\ chk_result # Idle /\ chk_call.fn = "get_type_from_ir_expression"

IsArrayLiteral(e) == e.tag = "Literal" /\ e.value.tag = "Array"

PrimitiveLiteralType(e) ==
    CASE e.value.tag = "Number" -> TNumber
      [] e.value.tag = "String" -> TString
      [] e.value.tag = "Boolean" -> TBoolean

\* a non-empty array literal of primitive literals that all have the type t
UniformArrayOf(e, t) ==
    /\ IsArrayLiteral(e)
    /\ e.value.elements # <<>>
    /\ \A i \in 1..Len(e.value.elements) :
          /\ e.value.elements[i].tag = "Literal"
          /\ PrimitiveLiteralType(e.value.elements[i]) = t

\* C5: array typing with a contextual type.  A non-empty array literal whose
\* elements all have the type E, checked against the contextual type Array(C),
\* yields Array(E) when E = C and the error ExpectedDataType when E # C.
C5_ArrayTyping ==
    CheckedExpression =>
        \A E \in PrimitiveTypes, C \in PrimitiveTypes :
            (UniformArrayOf(chk_call.expression, E) /\ chk_call.data_type = Some(TArray(C))) =>
                IF E = C THEN chk_result = TypeOk(TArray(E))
                ELSE chk_result.tag = "Err" /\ chk_result.kind = "ExpectedDataType"

\* C6: empty array literals.  [] checked with the contextual type Array(E)
\* yields Array(E); with no contextual type, or with one that is no array type,
\* it yields the error UnknownArrayType, an error value and no abort.
C6_EmptyArray ==
    (CheckedExpression /\ chk_call.expression = Literal(Array(<<>>))) =>
        /\ \A E \in PrimitiveTypes :
              chk_call.data_type = Some(TArray(E)) => chk_result = TypeOk(TArray(E))
        /\ (chk_call.data_type = None \/ chk_call.data_type \in { Some(t) : t \in PrimitiveTypes }) =>
              chk_result.tag = "Err" /\ chk_result.kind = "UnknownArrayType"

RECURSIVE HasCustom(_)
HasCustom(t) ==
    CASE t.tag = "Custom" -> TRUE
      [] t.tag = "Array" -> HasCustom(t.elem)
      [] t.tag = "Fn" ->
            \/ HasCustom(t.return_type)
            \/ \E i \in 1..Len(t.parameters) : HasCustom(t.parameters[i][1])
      [] OTHER -> FALSE

RECURSIVE HasUnbound(_, _)
HasUnbound(t, customs) ==
    CASE t.tag = "Custom" ->
            LET custom == CustomTypesGet(customs, t.name) IN
            IF custom.some THEN HasUnbound(custom.v, customs) ELSE TRUE
      [] t.tag = "Array" -> HasUnbound(t.elem, customs)
      [] t.tag = "Fn" ->
            \/ HasUnbound(t.return_type, customs)
            \/ \E i \in 1..Len(t.parameters) : HasUnbound(t.parameters[i][1], customs)
      [] OTHER -> FALSE

\* C7: custom-type resolution is complete.  A type custom_data_type returns
\* holds no Custom(name) at any depth, and a name bound nowhere in the custom
\* types, at any depth of the type, yields UndefinedType.
C7_CustomResolution ==
    (chk_result # Running /\ chk_result # Idle /\ chk_call.fn = "custom_data_type") =>
        /\ chk_result.tag = "Ok" => ~HasCustom(chk_result.data_type)
        /\ HasUnbound(chk_call.data_type, chk_call.customs) =>
              chk_result.tag = "Err" /\ chk_result.kind = "UndefinedType"

(***************************************************************************)
(* sntk_core::parser: tokens, the parser's cursor, the priorities          *)
(***************************************************************************)
Tok(t) == [t |-> t]
IDENT(name) == [t |-> "IDENT", name |-> name]
NumberTok(n) == [t |-> "Number", n |-> n]
StringTok(s) == [t |-> "String", s |-> s]
BooleanTok(b) == [t |-> "Boolean", b |-> b]
EOF == Tok("EOF")

\* Result<T, ParsingError> with the parser as the call leaves it; Abort is a
\* call that never returns (a panic, or the stack overflowing)
POk(v, p) == [tag |-> "Ok", v |-> v, p |-> p]
PErr(e, p) == [tag |-> "Err", e |-> e, p |-> p]
PAbort(why) == [tag |-> "Abort", why |-> why]

ParsingError(message, args) == [message |-> message, args |-> args]
UnexpectedToken(p) == PErr(ParsingError("UNEXPECTED_TOKEN", <<p.current_token>>), p)
ExpectedNextToken(token_type, p) ==
    PErr(ParsingError("EXPECTED_NEXT_TOKEN", <<token_type, p.current_token>>), p)

\* Lexer::next_token on an input that is already a list of tokens: the next
\* one, and EOF for ever once the input is used up
LexerNextToken(lx) ==
    IF lx.position < Len(lx.input)
    THEN [token |-> lx.input[lx.position + 1], lexer |-> [lx EXCEPT !.position = @ + 1]]
    ELSE [token |-> EOF, lexer |-> lx]

next_token(p) ==
    LET lexed == LexerNextToken(p.lexer) IN
    [p EXCEPT !.current_token = p.peek_token, !.peek_token = lexed.token, !.lexer = lexed.lexer]

ParserNew(input) ==
    next_token(next_token([lexer |-> [input |-> input, position |-> 0],
                           current_token |-> EOF, peek_token |-> EOF, errors |-> <<>>]))

expect_token(p, token_type) ==
    IF p.current_token = token_type THEN POk(TRUE, next_token(p))
    ELSE ExpectedNextToken(token_type, p)

peek_token(p, token_type) == p.peek_token = token_type

Priority ==
    [Lowest |-> 0, Equals |-> 1, LessGreater |-> 2, Sum |-> 3, Product |-> 4, Prefix |-> 5,
     Call |-> 6, Index |-> 7]

get_priority(token_type) ==
    CASE token_type.t = "Assign" -> Priority.Equals
      [] token_type.t \in {"Plus", "Minus"} -> Priority.Sum
      [] token_type.t \in {"Slash", "Asterisk"} -> Priority.Product
      [] token_type.t \in {"LT", "GT"} -> Priority.LessGreater
      [] token_type.t \in {"EQ", "NEQ"} -> Priority.Equals
      [] token_type.t = "LParen" -> Priority.Call
      [] token_type.t = "LBracket" -> Priority.Index
      [] OTHER -> Priority.Lowest

peek_priority(p) == get_priority(p.peek_token)
current_priority(p) == get_priority(p.current_token)

\* the ident! macro: the name of the current identifier token, or the
\* enclosing function returns an error
IdentOf(p) ==
    IF p.current_token.t = "IDENT" THEN POk(p.current_token.name, p) ELSE UnexpectedToken(p)

(***************************************************************************)
(* The syntax tree                                                         *)
(***************************************************************************)
AstIdentifier(value) == [tag |-> "Identifier", value |-> value]
NumberLiteral(n) == [tag |-> "NumberLiteral", n |-> n]
StringLiteral(s) == [tag |-> "StringLiteral", s |-> s]
BooleanLiteral(b) == [tag |-> "BooleanLiteral", b |-> b]
PrefixExpression(operator, right) == [tag |-> "PrefixExpression", operator |-> operator, right |-> right]
InfixExpression(left, operator, right) ==
    [tag |-> "InfixExpression", left |-> left, operator |-> operator, right |-> right]
CallExpression(function, arguments) ==
    [tag |-> "CallExpression", function |-> function, arguments |-> arguments]
BlockExpression(statements) == [tag |-> "BlockExpression", statements |-> statements]
ArrayLiteral(elements) == [tag |-> "ArrayLiteral", elements |-> elements]
ObjectLiteral(pairs) == [tag |-> "ObjectLiteral", pairs |-> pairs]
FunctionLiteral(generics, parameters, return_type, body) ==
    [tag |-> "FunctionLiteral", generics |-> generics, parameters |-> parameters,
     return_type |-> return_type, body |-> body]

LetStatement(data_type, name, value) ==
    [tag |-> "LetStatement", data_type |-> data_type, name |-> name, value |-> value]
ReturnStatement(value) == [tag |-> "ReturnStatement", value |-> value]
TypeStatement(data_type, name, generics) ==
    [tag |-> "TypeStatement", data_type |-> data_type, name |-> name, generics |-> generics]
ExpressionStatement(expression) == [tag |-> "ExpressionStatement", expression |-> expression]

TGeneric(base, arguments) == [tag |-> "Generic", base |-> base, arguments |-> arguments]
TObject(key_type, value_type) == [tag |-> "Object", key_type |-> key_type, value_type |-> value_type]

(***************************************************************************)
(* TypeParser                                                              *)
(***************************************************************************)
\* Every recursion of the parser goes through parse_expression,
\* parse_statement, parse_data_type or parse_data_type_without_next:
\* Parse(f, p, priority) is the call of f on the parser p, priority being the
\* argument of parse_expression
RECURSIVE Parse(_, _, _)
RECURSIVE GenericIdentifiers(_, _), GenericArguments(_, _), FunctionTypeParameters(_, _),
          DataTypeArrays(_)

\* `r?` followed by the rest of the function
Then(r, Rest(_)) == IF r.tag # "Ok" THEN r ELSE Rest(r)
\* `let x = ...;` followed by the rest of the function
With(x, Rest(_)) == Rest(x)

\* the loop of parse_generic_identifier, from a parser whose current token
\* follows `<` or a comma
GenericIdentifiers(p, generics) ==
    IF p.current_token = Tok("GT") THEN POk(generics, p)
    ELSE Then(IdentOf(p), LAMBDA ident:
         LET p1 == next_token(p)
             pushed == Append(generics, AstIdentifier(ident.v)) IN
         IF p1.current_token = Tok("GT") THEN POk(pushed, p1)
         ELSE Then(expect_token(p1, Tok("Comma")), LAMBDA comma:
              GenericIdentifiers(comma.p, pushed)))

parse_generic_identifier(p) ==
    Then(expect_token(p, Tok("LT")), LAMBDA lt: GenericIdentifiers(lt.p, <<>>))

\* `<T, U>` in front of a parameter list, and the token after it
OptionalGenerics(p) ==
    IF p.current_token = Tok("LT")
    THEN Then(parse_generic_identifier(p), LAMBDA generics:
         POk(Some(generics.v), next_token(generics.p)))
    ELSE POk(None, p)

GenericArguments(p, generics) ==
    IF p.current_token = Tok("GT") THEN POk(generics, p)
    ELSE Then(Parse("parse_data_type", p, Priority.Lowest), LAMBDA data_type:
         LET pushed == Append(generics, data_type.v) IN
         IF data_type.p.current_token = Tok("GT") THEN POk(pushed, data_type.p)
         ELSE Then(expect_token(data_type.p, Tok("Comma")), LAMBDA comma:
              GenericArguments(comma.p, pushed)))

parse_generic(p) ==
    Then(IdentOf(p), LAMBDA ident:
    Then(expect_token(next_token(p), Tok("LT")), LAMBDA lt:
    Then(GenericArguments(lt.p, <<>>), LAMBDA generics:
    POk(TGeneric(TCustom(ident.v), generics.v), generics.p))))

FunctionTypeParameters(p, parameters) ==
    IF p.current_token = Tok("RParen") THEN POk(parameters, p)
    ELSE Then(Parse("parse_data_type", p, Priority.Lowest), LAMBDA data_type:
         LET pushed == Append(parameters, data_type.v) IN
         IF data_type.p.current_token = Tok("RParen") THEN POk(pushed, data_type.p)
         ELSE Then(expect_token(data_type.p, Tok("Comma")), LAMBDA comma:
              FunctionTypeParameters(comma.p, pushed)))

parse_function_type(p) ==
    Then(OptionalGenerics(next_token(p)), LAMBDA generics:
    Then(expect_token(generics.p, Tok("LParen")), LAMBDA lparen:
    Then(FunctionTypeParameters(lparen.p, <<>>), LAMBDA parameters:
    Then(expect_token(parameters.p, Tok("RParen")), LAMBDA rparen:
    Then(expect_token(rparen.p, Tok("Arrow")), LAMBDA arrow:
    Then(Parse("parse_data_type_without_next", arrow.p, Priority.Lowest), LAMBDA return_type:
    POk(TFn(generics.v, parameters.v, return_type.v), return_type.p)))))))

parse_object_type(p) ==
    Then(Parse("parse_data_type", next_token(p), Priority.Lowest), LAMBDA key_type:
    Then(expect_token(key_type.p, Tok("Colon")), LAMBDA colon:
    Then(Parse("parse_data_type_without_next", colon.p, Priority.Lowest), LAMBDA value_type:
    POk(TObject(key_type.v, value_type.v), value_type.p))))

\* the `[]` suffixes; data_type is a Result that may already be an error
DataTypeArrays(data_type) ==
    IF peek_token(data_type.p, Tok("LBracket"))
    THEN LET p2 == next_token(next_token(data_type.p)) IN
         IF p2.current_token # Tok("RBracket") THEN ExpectedNextToken(Tok("RBracket"), p2)
         ELSE DataTypeArrays(IF data_type.tag = "Ok" THEN POk(TArray(data_type.v), p2)
                             ELSE PErr(data_type.e, p2))
    ELSE data_type

\* the value of a `match` on the current token: none is the `_ => None` arm
\* of parse_expression, early a return out of the function, and otherwise r
\* is the Result the match evaluates to
Left(r) == [none |-> FALSE, early |-> FALSE, r |-> r]
Early(r) == [none |-> FALSE, early |-> TRUE, r |-> r]
Try(r) == IF r.tag # "Ok" THEN Early(r) ELSE Left(r)

\* the first match of parse_data_type_without_next
DataTypeHead(p) ==
    CASE p.current_token = Tok("NumberType") -> Left(POk(TNumber, p))
      [] p.current_token = Tok("StringType") -> Left(POk(TString, p))
      [] p.current_token = Tok("BooleanType") -> Left(POk(TBoolean, p))
      [] p.current_token = Tok("Function") -> Try(parse_function_type(p))
      [] p.current_token = Tok("ObjectType") -> Try(parse_object_type(p))
      [] p.current_token.t = "IDENT" -> Left(POk(TCustom(p.current_token.name), p))
      [] OTHER -> Left(UnexpectedToken(p))

parse_data_type_without_next(p) ==
    With(DataTypeHead(p), LAMBDA head:
    IF head.early THEN head.r
    ELSE IF peek_token(head.r.p, Tok("LT"))
         THEN Then(parse_generic(head.r.p), DataTypeArrays)
         ELSE DataTypeArrays(head.r))

parse_data_type(p) ==
    With(parse_data_type_without_next(p), LAMBDA result:
    [result EXCEPT !.p = next_token(result.p)])

(***************************************************************************)
(* ParserTrait: statements and expressions                                 *)
(***************************************************************************)
InfixTokens == {"Plus", "Minus", "Slash", "Asterisk", "Percent", "EQ", "NEQ", "LT", "GT", "LTE", "GTE"}

RECURSIVE BlockStatements(_, _), ArrayElements(_, _), ObjectElements(_, _),
          FunctionParameters(_, _), ParseCallArgumentsLoop(_, _), InfixLoop(_, _)

\* the tail of a let, return or expression statement: the `;` must be the
\* peek token
ExpectSemicolon(statement, p) ==
    IF peek_token(p, Tok("Semicolon")) THEN POk(statement, next_token(p))
    ELSE ExpectedNextToken(Tok("Semicolon"), p)

parse_type_statement(p) ==
    With(next_token(p), LAMBDA p1:
    Then(IdentOf(p1), LAMBDA ident:
    With(next_token(p1), LAMBDA p2:
    Then(IF p2.current_token = Tok("LT") THEN parse_generic_identifier(p2) ELSE POk(<<>>, p2),
         LAMBDA generics:
    Then(expect_token(next_token(generics.p), Tok("Assign")), LAMBDA assign:
    Then(Parse("parse_data_type", assign.p, Priority.Lowest), LAMBDA data_type:
    IF data_type.p.current_token = Tok("Semicolon")
    THEN POk(TypeStatement(data_type.v, AstIdentifier(ident.v), generics.v), data_type.p)
    ELSE ExpectedNextToken(Tok("Semicolon"), data_type.p)))))))

parse_let_statement(p) ==
    With(next_token(p), LAMBDA p1:
    Then(IdentOf(p1), LAMBDA ident:
    Then(expect_token(next_token(p1), Tok("Colon")), LAMBDA colon:
    Then(Parse("parse_data_type", colon.p, Priority.Lowest), LAMBDA data_type:
    Then(expect_token(data_type.p, Tok("Assign")), LAMBDA assign:
    With(Parse("parse_expression", assign.p, Priority.Lowest), LAMBDA expression:
    CASE expression.tag = "Ok" ->
            ExpectSemicolon(LetStatement(data_type.v, AstIdentifier(ident.v), expression.v),
                            expression.p)
      [] expression.tag = "Err" -> UnexpectedToken(expression.p)
      [] OTHER -> expression))))))

parse_return_statement(p) ==
    With(Parse("parse_expression", next_token(p), Priority.Lowest), LAMBDA expression:
    CASE expression.tag = "Ok" -> ExpectSemicolon(ReturnStatement(expression.v), expression.p)
      [] expression.tag = "Err" ->
            PErr(ParsingError("EXPECTED_EXPRESSION", <<expression.p.current_token>>), expression.p)
      [] OTHER -> expression)

parse_expression_statement(p) ==
    Then(Parse("parse_expression", p, Priority.Lowest), LAMBDA expression:
    ExpectSemicolon(ExpressionStatement(expression.v), expression.p))

parse_statement(p) ==
    CASE p.current_token = Tok("Let") -> parse_let_statement(p)
      [] p.current_token = Tok("Return") -> parse_return_statement(p)
      [] p.current_token = Tok("Type") -> parse_type_statement(p)
      [] OTHER -> parse_expression_statement(p)

BlockStatements(p, statements) ==
    IF p.current_token = Tok("RBrace") THEN POk(BlockExpression(statements), p)
    ELSE Then(Parse("parse_statement", p, Priority.Lowest), LAMBDA statement:
         BlockStatements(next_token(statement.p), Append(statements, statement.v)))

parse_block_expression(p) == BlockStatements(next_token(p), <<>>)

ArrayElements(p, elements) ==
    IF p.current_token = Tok("RBrace") THEN POk(elements, p)
    ELSE Then(Parse("parse_expression", p, Priority.Lowest), LAMBDA element:
         LET p1 == next_token(element.p)
             pushed == Append(elements, element.v) IN
         IF p1.current_token = Tok("RBracket") THEN POk(pushed, p1)
         ELSE Then(expect_token(p1, Tok("Comma")), LAMBDA comma:
              ArrayElements(comma.p, pushed)))

parse_array_literal(p) ==
    Then(ArrayElements(next_token(p), <<>>), LAMBDA elements:
    IF elements.p.current_token # Tok("RBracket")
    THEN ExpectedNextToken(Tok("RBracket"), elements.p)
    ELSE POk(ArrayLiteral(elements.v), elements.p))

ObjectElements(p, elements) ==
    IF p.current_token = Tok("RBrace") THEN POk(elements, p)
    ELSE Then(Parse("parse_expression", p, Priority.Lowest), LAMBDA key:
         Then(expect_token(next_token(key.p), Tok("Colon")), LAMBDA colon:
         Then(Parse("parse_expression", colon.p, Priority.Lowest), LAMBDA value:
         LET p1 == next_token(value.p)
             pushed == Append(elements, <<key.v, value.v>>) IN
         IF p1.current_token = Tok("RBrace") THEN POk(pushed, p1)
         ELSE Then(expect_token(p1, Tok("Comma")), LAMBDA comma:
              ObjectElements(comma.p, pushed)))))

parse_object_literal(p) ==
    Then(ObjectElements(next_token(next_token(p)), <<>>), LAMBDA elements:
    IF elements.p.current_token # Tok("RBrace")
    THEN ExpectedNextToken(Tok("RBrace"), elements.p)
    ELSE POk(ObjectLiteral(elements.v), elements.p))

FunctionParameters(p, parameters) ==
    IF p.current_token = Tok("RParen") THEN POk(parameters, p)
    ELSE IF p.current_token.t # "IDENT" THEN UnexpectedToken(p)
    ELSE Then(expect_token(next_token(p), Tok("Colon")), LAMBDA colon:
         Then(Parse("parse_data_type", colon.p, Priority.Lowest), LAMBDA data_type:
         LET pushed == Append(parameters, <<AstIdentifier(p.current_token.name), data_type.v>>) IN
         IF data_type.p.current_token = Tok("RParen") THEN POk(pushed, data_type.p)
         ELSE Then(expect_token(data_type.p, Tok("Comma")), LAMBDA comma:
              FunctionParameters(comma.p, pushed))))

parse_function_literal(p) ==
    Then(OptionalGenerics(next_token(p)), LAMBDA generics:
    Then(expect_token(generics.p, Tok("LParen")), LAMBDA lparen:
    Then(FunctionParameters(lparen.p, <<>>), LAMBDA parameters:
    Then(expect_token(parameters.p, Tok("RParen")), LAMBDA rparen:
    Then(expect_token(rparen.p, Tok("Arrow")), LAMBDA arrow:
    Then(Parse("parse_data_type", arrow.p, Priority.Lowest), LAMBDA return_type:
    IF return_type.p.current_token # Tok("LBrace")
    THEN ExpectedNextToken(Tok("LBrace"), return_type.p)
    ELSE Then(parse_block_expression(return_type.p), LAMBDA body:
         POk(FunctionLiteral(generics.v, parameters.v, return_type.v, body.v), body.p))))))))

\* the arguments of a call, from the token after `(`
ParseCallArgumentsLoop(p, arguments) ==
    IF p.current_token = Tok("RParen") THEN POk(arguments, p)
    ELSE Then(Parse("parse_expression", p, Priority.Lowest), LAMBDA argument:
         LET p1 == next_token(argument.p)
             pushed == Append(arguments, argument.v) IN
         IF p1.current_token = Tok("RParen") THEN POk(pushed, p1)
         ELSE Then(expect_token(p1, Tok("Comma")), LAMBDA comma:
              ParseCallArgumentsLoop(comma.p, pushed)))

ParseCallArguments(p) ==
    IF p.current_token = Tok("RParen") THEN POk(<<>>, p)
    ELSE Then(Parse("parse_expression", p, Priority.Lowest), LAMBDA first:
         Then(ParseCallArgumentsLoop(first.p, <<first.v>>), LAMBDA arguments:
         IF arguments.p.current_token # Tok("RParen")
         THEN ExpectedNextToken(Tok("RParen"), arguments.p)
         ELSE arguments))

\* the match of parse_expression on the current token
LeftExpression(p) ==
    CASE p.current_token.t = "IDENT" -> Left(POk(AstIdentifier(p.current_token.name), p))
      [] p.current_token.t = "Number" -> Left(POk(NumberLiteral(p.current_token.n), p))
      [] p.current_token.t = "String" -> Left(POk(StringLiteral(p.current_token.s), p))
      [] p.current_token.t = "Boolean" -> Left(POk(BooleanLiteral(p.current_token.b), p))
      [] p.current_token.t \in {"Bang", "Minus"} ->
            \* parse_expression(Priority::Prefix) on the same current token:
            \* the recursion never consumes it
            Early(PAbort("stack overflow"))
      [] p.current_token.t = "LParen" ->
            With(Parse("parse_expression", next_token(p), Priority.Lowest), LAMBDA expression:
            IF expression.tag = "Abort" THEN Early(expression)
            ELSE LET p1 == next_token(expression.p) IN
                 IF p1.current_token # Tok("RParen")
                 THEN Early(ExpectedNextToken(Tok("RParen"), p1))
                 ELSE Left([expression EXCEPT !.p = p1]))
      [] p.current_token.t = "LBrace" -> Try(parse_block_expression(p))
      [] p.current_token.t = "LBracket" -> Try(parse_array_literal(p))
      [] p.current_token.t = "ObjectType" -> Try(parse_object_literal(p))
      [] p.current_token.t = "Function" -> Try(parse_function_literal(p))
      [] p.current_token.t = "If" -> Early(PAbort("unimplemented"))
      [] OTHER -> [none |-> TRUE, early |-> FALSE, r |-> UnexpectedToken(p)]

\* the while loop of parse_expression; left_expression is a Result
InfixLoop(left_expression, priority) ==
    LET p == left_expression.p
        p1 == next_token(p) IN
    IF ~peek_token(p, Tok("Semicolon")) /\ priority < peek_priority(p)
    THEN CASE p1.current_token.t \in InfixTokens ->
                IF left_expression.tag # "Ok" THEN [left_expression EXCEPT !.p = p1]
                ELSE Then(Parse("parse_expression", next_token(p1), current_priority(next_token(p1))),
                          LAMBDA right:
                     InfixLoop(POk(InfixExpression(left_expression.v, p1.current_token.t, right.v),
                                   right.p), priority))
           [] p1.current_token.t = "LParen" ->
                Then(ParseCallArguments(next_token(p1)), LAMBDA arguments:
                IF left_expression.tag # "Ok" THEN [left_expression EXCEPT !.p = arguments.p]
                ELSE InfixLoop(POk(CallExpression(left_expression.v, arguments.v), arguments.p),
                               priority))
           [] OTHER -> InfixLoop(UnexpectedToken(p1), priority)
    ELSE left_expression

parse_expression(p, priority) ==
    With(LeftExpression(p), LAMBDA left_expression:
    IF left_expression.early \/ left_expression.none THEN left_expression.r
    ELSE InfixLoop(left_expression.r, priority))

Parse(f, p, priority) ==
    CASE f = "parse_expression" -> parse_expression(p, priority)
      [] f = "parse_statement" -> parse_statement(p)
      [] f = "parse_data_type" -> parse_data_type(p)
      [] f = "parse_data_type_without_next" -> parse_data_type_without_next(p)

(***************************************************************************)
(* parse_program as a state machine: one turn of its loop per step         *)
(***************************************************************************)
ProgramDefault == [statements |-> <<>>, errors |-> <<>>]

\* what parse_program hands back once its loop is over
ProgramReturnedKeepsStatements(statements, errors) ==
    [statements |-> statements, errors |-> errors]

ProgramReturned(statements, errors) ==
    [statements |-> IF Len(errors) > 0 THEN <<>> ELSE statements, errors |-> errors]

MaxTokens == 3

TokenAlphabet ==
    { IDENT("a"), NumberTok(F64(1)), Tok("Plus"), Tok("Asterisk"), Tok("Minus"), Tok("Semicolon"),
      Tok("LParen"), Tok("RParen"), Tok("LBracket"), Tok("Comma"), Tok("Return"), Tok("If") }

ShortInputs == UNION { [1..n -> TokenAlphabet] : n \in 0..MaxTokens }

ChainOperators == {"Plus", "Minus", "Asterisk", "Slash", "LT", "GT", "EQ", "NEQ"}

\* a op1 b op2 c ;
Chain(op1, op2) ==
    <<IDENT("a"), Tok(op1), IDENT("b"), Tok(op2), IDENT("c"), Tok("Semicolon")>>

ChainInputs ==
    { Chain(op1, op2) : op1 \in ChainOperators, op2 \in ChainOperators }
      \cup { <<IDENT("a"), Tok(op), IDENT("b"), Tok("Semicolon")>> : op \in InfixTokens }

\* type N = number ;
TypeNumberInput ==
    <<Tok("Type"), IDENT("N"), Tok("Assign"), Tok("NumberType"), Tok("Semicolon")>>

StatementInputs ==
    { TypeNumberInput,
      \* type N = N [ ] ;
      <<Tok("Type"), IDENT("N"), Tok("Assign"), IDENT("N"), Tok("LBracket"), Tok("RBracket"),
        Tok("Semicolon")>>,
      \* type X < T > = number ;
      <<Tok("Type"), IDENT("X"), Tok("LT"), IDENT("T"), Tok("GT"), Tok("Assign"),
        Tok("NumberType"), Tok("Semicolon")>>,
      \* type X < T , U > = T < U > ;
      <<Tok("Type"), IDENT("X"), Tok("LT"), IDENT("T"), Tok("Comma"), IDENT("U"), Tok("GT"),
        Tok("Assign"), IDENT("T"), Tok("LT"), IDENT("U"), Tok("GT"), Tok("Semicolon")>>,
      \* type N number ;
      <<Tok("Type"), IDENT("N"), Tok("NumberType"), Tok("Semicolon")>>,
      \* let x : number = 1 ;
      <<Tok("Let"), IDENT("x"), Tok("Colon"), Tok("NumberType"), Tok("Assign"), NumberTok(F64(1)),
        Tok("Semicolon")>>,
      \* let x : string = "s" let
      <<Tok("Let"), IDENT("x"), Tok("Colon"), Tok("StringType"), Tok("Assign"),
        StringTok(<<115>>), Tok("Let")>>,
      \* let x : boolean [ ] = [ true , false ] ;
      <<Tok("Let"), IDENT("x"), Tok("Colon"), Tok("BooleanType"), Tok("LBracket"),
        Tok("RBracket"), Tok("Assign"), Tok("LBracket"), BooleanTok(TRUE), Tok("Comma"),
        BooleanTok(FALSE), Tok("RBracket"), Tok("Semicolon")>>,
      \* let f : fn ( number ) -> number = fn ( n : number ) -> number { return n ; } ;
      <<Tok("Let"), IDENT("f"), Tok("Colon"), Tok("Function"), Tok("LParen"),
        Tok("NumberType"), Tok("RParen"), Tok("Arrow"), Tok("NumberType"), Tok("Assign"),
        Tok("Function"), Tok("LParen"), IDENT("n"), Tok("Colon"), Tok("NumberType"),
        Tok("RParen"), Tok("Arrow"), Tok("NumberType"), Tok("LBrace"), Tok("Return"),
        IDENT("n"), Tok("Semicolon"), Tok("RBrace"), Tok("Semicolon")>>,
      \* let o : object string : number = object { "s" : 1 } ;
      <<Tok("Let"), IDENT("o"), Tok("Colon"), Tok("ObjectType"), Tok("StringType"),
        Tok("Colon"), Tok("NumberType"), Tok("Assign"), Tok("ObjectType"), Tok("LBrace"),
        StringTok(<<115>>), Tok("Colon"), NumberTok(F64(1)), Tok("RBrace"), Tok("Semicolon")>>,
      \* f ( a , b ) ;
      <<IDENT("f"), Tok("LParen"), IDENT("a"), Tok("Comma"), IDENT("b"), Tok("RParen"),
        Tok("Semicolon")>>,
      \* a * ( b ) + c ;
      <<IDENT("a"), Tok("Asterisk"), Tok("LParen"), IDENT("b"), Tok("RParen"), Tok("Plus"),
        IDENT("c"), Tok("Semicolon")>>,
      \* a ; type N = number ; b ;
      <<IDENT("a"), Tok("Semicolon")>> \o TypeNumberInput \o <<IDENT("b"), Tok("Semicolon")>> }

\* the argument lists of the calls f ( ) ;   f ( a ) ;   f ( a , b ) ;   f ( b , a , c ) ;
ArgumentNames == { <<>>, <<"a">>, <<"a", "b">>, <<"b", "a", "c">> }

RECURSIVE CommaSeparated(_)
CommaSeparated(names) ==
    IF names = <<>> THEN <<>>
    ELSE IF Len(names) = 1 THEN <<IDENT(names[1])>>
    ELSE <<IDENT(names[1]), Tok("Comma")>> \o CommaSeparated(Tail(names))

CallInput(names) ==
    <<IDENT("f"), Tok("LParen")>> \o CommaSeparated(names) \o <<Tok("RParen"), Tok("Semicolon")>>

CallInputs == { CallInput(names) : names \in ArgumentNames }

ParserInputs == ShortInputs \cup ChainInputs \cup StatementInputs \cup CallInputs

InitParser ==
    /\ parser \in { ParserNew(input) : input \in ParserInputs }
    /\ program = ProgramDefault
    /\ presult = Running
    /\ InterpIdle
    /\ CheckerIdle
    /\ CompilerIdle
    /\ LexerIdle

\* one turn of the loop of parse_program, the statement parsed
ParseStatementOk ==
    /\ presult = Running
    /\ parser.current_token # EOF
    /\ LET r == parse_statement(parser) IN
       /\ r.tag = "Ok"
       /\ program' = [program EXCEPT !.statements = Append(@, r.v)]
       /\ parser' = next_token(r.p)
    /\ UNCHANGED <<presult, NotParser>>

\* one turn of the loop, the statement failing: the error is kept and the
\* loop goes on from where the statement gave up
ParseStatementErr ==
    /\ presult = Running
    /\ parser.current_token # EOF
    /\ LET r == parse_statement(parser) IN
       /\ r.tag = "Err"
       /\ parser' = next_token([r.p EXCEPT !.errors = Append(@, r.e)])
    /\ UNCHANGED <<program, presult, NotParser>>

\* one turn of the loop that never comes back
ParseStatementAbort ==
    /\ presult = Running
    /\ parser.current_token # EOF
    /\ LET r == parse_statement(parser) IN
       /\ r.tag = "Abort"
       /\ presult' = r
    /\ UNCHANGED <<parser, program, NotParser>>

\* the loop is over: parse_program returns the program
ParseProgramReturn ==
    /\ presult = Running
    /\ parser.current_token = EOF
    /\ program' = ProgramReturned(program.statements, parser.errors)
    /\ presult' = [tag |-> "Ok"]
    /\ UNCHANGED <<parser, NotParser>>

NextParser == ParseStatementOk \/ ParseStatementErr \/ ParseStatementAbort \/ ParseProgramReturn

SpecParser == InitParser /\ [][NextParser]_vars

(***************************************************************************)
(* Properties of the parser                                                *)
(***************************************************************************)
ParserReturned == presult.tag = "Ok"

\* C2 (parser totality): whenever parse_program returns, the Program has an
\* empty error list, or a non-empty error list and no statements; it never
\* holds both errors and statements.
C2_ParserTotality ==
    ParserReturned =>
        \/ program.errors = <<>>
        \/ program.errors # <<>> /\ program.statements = <<>>

\* parse_program has returned with errors, and the first statement of the
\* input had been parsed and pushed before an error came
C2_Witness ==
    /\ ParserReturned
    /\ program.errors # <<>>
    /\ program.statements = <<>>
    /\ parse_statement(ParserNew(parser.lexer.input)).tag = "Ok"

\* the tree the precedence table gives to `a op1 b op2 c`: the first
\* operator is folded first unless the second binds tighter
ChainTree(op1, op2) ==
    IF get_priority(Tok(op1)) >= get_priority(Tok(op2))
    THEN InfixExpression(InfixExpression(AstIdentifier("a"), op1, AstIdentifier("b")),
                         op2, AstIdentifier("c"))
    ELSE InfixExpression(AstIdentifier("a"), op1,
                         InfixExpression(AstIdentifier("b"), op2, AstIdentifier("c")))

\* C3 (precedence): `a op1 b op2 c;` parses to the tree of the precedence
\* table: a tighter or equal first operator is folded into the left operand
\* (`a * b + c` is (a * b) + c, `a - b - c` is (a - b) - c), a tighter second
\* operator takes the right operand (`a + b * c` is a + (b * c)).
C3_Precedence ==
    \A op1 \in ChainOperators, op2 \in ChainOperators :
        (ParserReturned /\ parser.lexer.input = Chain(op1, op2)) =>
            program = [statements |-> <<ExpressionStatement(ChainTree(op1, op2))>>,
                       errors |-> <<>>]

\* C8 (type statement without generics): `type N = number;` parses to the
\* statement Type(N, no generics, number) and no parsing error is recorded.
C8_TypeStatementWithoutGenerics ==
    (ParserReturned /\ parser.lexer.input = TypeNumberInput) =>
        program = [statements |-> <<TypeStatement(TNumber, AstIdentifier("N"), <<>>)>>,
                   errors |-> <<>>]

(***************************************************************************)
(* sntk_compiler::compiler: from the syntax tree to stack code             *)
(***************************************************************************)
\* an instruction of the stack code: LoadConst(value), LoadName(name),
\* LoadGlobal(name), StoreName(name), Return, UnaryOp(op), BinaryOp(op),
\* BinaryOpEq(op), CallFunction(n)
Instruction(op, operand) == [op |-> op, operand |-> operand]

\* CompileResult<()> together with self.code as the call leaves it
CompileOk(code) == [tag |-> "Ok", code |-> code]
CompileErr(kind, args) == [tag |-> "Err", kind |-> kind, args |-> args]
CompilePanic(why) == [tag |-> "Panic", why |-> why]

\* Type::eq_from_type: the two types are structurally equal
eq_from_type(a, b) == a = b

\* Type::get_data_type_from_expression, on the literals
get_data_type_from_expression(expression) ==
    CASE expression.tag = "NumberLiteral" -> TNumber
      [] expression.tag = "StringLiteral" -> TString
      [] expression.tag = "BooleanLiteral" -> TBoolean

literal_value(expression) ==
    CASE expression.tag = "NumberLiteral" -> Number(expression.n)
      [] expression.tag = "StringLiteral" -> String(expression.s)
      [] expression.tag = "BooleanLiteral" -> Boolean(expression.b)

\* the match_type! macro and the LoadConst that follows it
CompileLiteral(code, expression, type, data_type) ==
    LET expected == IF data_type.some THEN data_type.v
                    ELSE get_data_type_from_expression(expression) IN
    IF ~eq_from_type(expected, type)
    THEN CompileErr("EXPECTED_DATA_TYPE", <<expected, type>>)
    ELSE CompileOk(Append(code, Instruction("LoadConst", literal_value(expression))))

UnaryOperator(operator) ==
    CASE operator = "Minus" -> Some(Instruction("UnaryOp", "Minus"))
      [] operator = "Bang" -> Some(Instruction("UnaryOp", "Not"))
      [] OTHER -> None

BinaryOperator(operator) ==
    CASE operator = "Plus" -> Some(Instruction("BinaryOp", "Add"))
      [] operator = "Minus" -> Some(Instruction("BinaryOp", "Sub"))
      [] operator = "Asterisk" -> Some(Instruction("BinaryOp", "Mul"))
      [] operator = "Slash" -> Some(Instruction("BinaryOp", "Div"))
      [] operator = "Percent" -> Some(Instruction("BinaryOp", "Mod"))
      [] operator = "EQ" -> Some(Instruction("BinaryOpEq", "Eq"))
      [] operator = "NEQ" -> Some(Instruction("BinaryOpEq", "Neq"))
      [] operator = "LT" -> Some(Instruction("BinaryOpEq", "Lt"))
      [] operator = "GT" -> Some(Instruction("BinaryOpEq", "Gt"))
      [] operator = "LTE" -> Some(Instruction("BinaryOpEq", "Lte"))
      [] operator = "GTE" -> Some(Instruction("BinaryOpEq", "Gte"))
      [] OTHER -> None

\* push the instruction of an operator, or panic on an unknown one
PushOperator(code, instruction) ==
    IF instruction.some THEN CompileOk(Append(code, instruction.v))
    ELSE CompilePanic("Unknown operator")

RECURSIVE compile_expression(_, _, _), CompileArguments(_, _, _)

\* `for argument in arguments { self.compile_expression(&argument, None)?; }`
CompileArguments(code, arguments, index) ==
    IF index > Len(arguments) THEN CompileOk(code)
    ELSE Then(compile_expression(code, arguments[index], None), LAMBDA argument:
         CompileArguments(argument.code, arguments, index + 1))

\* the callee of a call, once the arguments are compiled
CompileCallee(code, function) ==
    CASE function.tag = "Identifier" ->
            IF get_builtin_function(function.value).some
            THEN CompileOk(Append(code, Instruction("LoadGlobal", function.value)))
            ELSE CompileOk(Append(code, Instruction("LoadName", function.value)))
      [] function.tag \in {"FunctionLiteral", "CallExpression"} ->
            compile_expression(code, function, None)
      [] OTHER -> CompilePanic("Unknown function")

\* The arms for blocks, arrays, function literals and `if` go through
\* compile_block, type_checked_array and type_checked_function; no such
\* expression is among the programs compiled here.
compile_expression(code, expression, data_type) ==
    CASE expression.tag = "Identifier" ->
            CompileOk(Append(code, Instruction("LoadName", expression.value)))
      [] expression.tag = "NumberLiteral" -> CompileLiteral(code, expression, TNumber, data_type)
      [] expression.tag = "StringLiteral" -> CompileLiteral(code, expression, TString, data_type)
      [] expression.tag = "BooleanLiteral" -> CompileLiteral(code, expression, TBoolean, data_type)
      [] expression.tag \in {"StructLiteral", "IndexExpression"} ->
            CompilePanic("not yet implemented")
      [] expression.tag = "PrefixExpression" ->
            Then(compile_expression(code, expression.right, None), LAMBDA right:
            PushOperator(right.code, UnaryOperator(expression.operator)))
      [] expression.tag = "InfixExpression" ->
            LET left_data_type == get_data_type_from_expression(expression.left)
                right_data_type == get_data_type_from_expression(expression.right) IN
            Then(compile_expression(code, expression.left, Some(right_data_type)), LAMBDA left:
            Then(compile_expression(left.code, expression.right, Some(left_data_type)), LAMBDA right:
            IF data_type.some /\ ~eq_from_type(data_type.v, left_data_type)
            THEN CompileErr("EXPECTED_DATA_TYPE", <<data_type.v, left_data_type>>)
            ELSE PushOperator(right.code, BinaryOperator(expression.operator))))
      [] expression.tag = "CallExpression" ->
            Then(CompileArguments(code, expression.arguments, 1), LAMBDA arguments:
            Then(CompileCallee(arguments.code, expression.function), LAMBDA function:
            CompileOk(Append(function.code, Instruction("CallFunction", Len(expression.arguments))))))

compile_let_statement(code, let_statement) ==
    Then(compile_expression(code, let_statement.value, Some(let_statement.data_type)),
         LAMBDA value:
    CompileOk(Append(value.code, Instruction("StoreName", let_statement.name.value))))

compile_return_statement(code, return_statement) ==
    Then(compile_expression(code, return_statement.value, None), LAMBDA value:
    CompileOk(Append(value.code, Instruction("Return", ""))))

compile_type_statement(code, type_statement) == CompilePanic("not yet implemented")

\* the match of compile_program on one statement
CompileStatement(code, statement) ==
    CASE statement.tag = "LetStatement" -> compile_let_statement(code, statement)
      [] statement.tag = "ReturnStatement" -> compile_return_statement(code, statement)
      [] statement.tag = "TypeStatement" -> compile_type_statement(code, statement)
      [] statement.tag = "StructStatement" -> CompilePanic("not implemented")
      [] statement.tag = "ExpressionStatement" ->
            compile_expression(code, statement.expression, None)

CompilerNew(compiled) == [program |-> compiled, code |-> <<>>]

(***************************************************************************)
(* compile_program as a state machine: one statement per step              *)
(***************************************************************************)
MaxStatements == 2

LetTypes == {TNumber, TString, TBoolean}

ValuePool ==
    { NumberLiteral(F64(1)), StringLiteral(<<97>>),
      AstIdentifier("y"),
      InfixExpression(NumberLiteral(F64(1)), "LT", NumberLiteral(F64(2))),
      PrefixExpression("Bang", BooleanLiteral(TRUE)),
      CallExpression(AstIdentifier("f"), <<>>) }

StatementPool ==
    { LetStatement(t, AstIdentifier(n), v) : t \in LetTypes, n \in {"x", "y"}, v \in ValuePool }
      \cup { ReturnStatement(NumberLiteral(F64(1))),
             ExpressionStatement(CallExpression(AstIdentifier("print"), <<AstIdentifier("y")>>)),
             ExpressionStatement(InfixExpression(NumberLiteral(F64(1)), "Plus", StringLiteral(<<97>>))),
             TypeStatement(TNumber, AstIdentifier("N"), <<>>) }

CompilerPrograms ==
    { [statements |-> statements, errors |-> <<>>] :
        statements \in UNION { [1..n -> StatementPool] : n \in 0..MaxStatements } }
      \cup { [statements |-> <<>>,
              errors |-> <<ParsingError("UNEXPECTED_TOKEN", <<Tok("RParen")>>)>>] }

InitCompiler ==
    /\ compiler \in { CompilerNew(compiled) : compiled \in CompilerPrograms }
    /\ cpc = 1
    /\ cresult = Running
    /\ InterpIdle
    /\ CheckerIdle
    /\ ParserIdle
    /\ LexerIdle

\* the program came with parsing errors
CompileParsingError ==
    /\ cresult = Running
    /\ compiler.program.errors # <<>>
    /\ cresult' = CompileErr("ParsingError", compiler.program.errors)
    /\ UNCHANGED <<compiler, cpc, NotCompiler>>

\* one turn of the loop of compile_program, the statement compiled
CompileStatementOk ==
    /\ cresult = Running
    /\ compiler.program.errors = <<>>
    /\ cpc <= Len(compiler.program.statements)
    /\ LET r == CompileStatement(compiler.code, compiler.program.statements[cpc]) IN
       /\ r.tag = "Ok"
       /\ compiler' = [compiler EXCEPT !.code = r.code]
       /\ cpc' = cpc + 1
    /\ UNCHANGED <<cresult, NotCompiler>>

\* one turn of the loop, the statement rejected: `?` returns the error
CompileStatementErr ==
    /\ cresult = Running
    /\ compiler.program.errors = <<>>
    /\ cpc <= Len(compiler.program.statements)
    /\ LET r == CompileStatement(compiler.code, compiler.program.statements[cpc]) IN
       /\ r.tag = "Err"
       /\ cresult' = r
    /\ UNCHANGED <<compiler, cpc, NotCompiler>>

\* one turn of the loop that panics
CompileStatementPanic ==
    /\ cresult = Running
    /\ compiler.program.errors = <<>>
    /\ cpc <= Len(compiler.program.statements)
    /\ LET r == CompileStatement(compiler.code, compiler.program.statements[cpc]) IN
       /\ r.tag = "Panic"
       /\ cresult' = r
    /\ UNCHANGED <<compiler, cpc, NotCompiler>>

\* the loop is over: Ok(Interpreter::new(code))
CompileProgramReturn ==
    /\ cresult = Running
    /\ compiler.program.errors = <<>>
    /\ cpc > Len(compiler.program.statements)
    /\ cresult' = [tag |-> "Ok", instructions |-> compiler.code]
    /\ UNCHANGED <<compiler, cpc, NotCompiler>>

NextCompiler ==
    \/ CompileParsingError
    \/ CompileStatementOk
    \/ CompileStatementErr
    \/ CompileStatementPanic
    \/ CompileProgramReturn

SpecCompiler == InitCompiler /\ [][NextCompiler]_vars

(***************************************************************************)
(* Properties of the compiler                                              *)
(***************************************************************************)
CompiledStatements == compiler.program.statements

\* the let statements before statement i that declare name
LetsBefore(i, name) ==
    { j \in 1..(i - 1) : /\ CompiledStatements[j].tag = "LetStatement"
                         /\ CompiledStatements[j].name.value = name }

\* the type of the value of statement i, where the language fixes it: a
\* literal has its own type, an identifier the type of its latest
\* declaration, a comparison and a negation are boolean
ValueType(i) ==
    LET value == CompiledStatements[i].value IN
    CASE value.tag = "NumberLiteral" -> Some(TNumber)
      [] value.tag = "StringLiteral" -> Some(TString)
      [] value.tag = "BooleanLiteral" -> Some(TBoolean)
      [] value.tag = "Identifier" /\ LetsBefore(i, value.value) # {} ->
            Some(CompiledStatements[CHOOSE j \in LetsBefore(i, value.value) :
                                        \A k \in LetsBefore(i, value.value) : k <= j].data_type)
      [] value.tag = "InfixExpression" /\ value.operator = "LT" -> Some(TBoolean)
      [] value.tag = "PrefixExpression" /\ value.operator = "Bang" -> Some(TBoolean)
      [] OTHER -> None

\* statement i is a let whose value has a type other than the declared one
MistypedLet(i) ==
    /\ CompiledStatements[i].tag = "LetStatement"
    /\ ValueType(i).some
    /\ ValueType(i).v # CompiledStatements[i].data_type

\* C9 (let type equality): a let whose value has a type different from the
\* declared type is never compiled past, whatever the form of the value, and
\* compile_program ends on it with ExpectedDataType(declared, inferred).
C9_LetTypeEquality ==
    cresult # Idle =>
        \A i \in 1..Len(CompiledStatements) :
            MistypedLet(i) =>
                /\ cpc <= i
                /\ (cpc = i /\ cresult # Running) =>
                      cresult = CompileErr("EXPECTED_DATA_TYPE",
                                           <<CompiledStatements[i].data_type, ValueType(i).v>>)

(***************************************************************************)
(* Index expressions: the interpreter run on `r = [e0, .., en-1][i]`       *)
(***************************************************************************)
MaxArrayLen == 3
MaxIndex == 4

\* the elements 10, 20, 30, ... of an array literal of length n
IndexedElements(n) == [k \in 1..n |-> Num(10 * k)]

\* whole indices around the bounds of the array, and some fractions
IndexPool ==
    { F64(i) : i \in (0 - MaxIndex)..MaxIndex } \cup { <<1, 2>>, <<0 - 1, 2>>, <<5, 2>> }

IndexPrograms ==
    { <<StoreName("r", Index(Literal(Array(IndexedElements(n))), Literal(Number(i))))>> :
        n \in 0..MaxArrayLen, i \in IndexPool }

InitIndex ==
    /\ instructions \in IndexPrograms
    /\ environment = IrEnvironmentNew(None)
    /\ ipc = 1
    /\ iresult = Running
    /\ out = <<>>
    /\ CheckerIdle
    /\ ParserIdle
    /\ CompilerIdle
    /\ LexerIdle

SpecIndex == InitIndex /\ [][NextInterp]_vars

IsIndexProgram ==
    /\ Len(instructions) = 1
    /\ instructions[1].tag = "StoreName"
    /\ instructions[1].expression.tag = "Index"

IndexedArray == instructions[1].expression.left.value.elements
IndexNumber == instructions[1].expression.index.value.n

\* C11 (index bounds): when IrInterpreter::eval has run `r = array[i]` for a
\* whole number i, r is element i of the array if 0 <= i < n, and for every
\* other i, the negative ones included, eval failed with IndexOutOfBounds(i).
C11_IndexBounds ==
    (Finished /\ IsIndexProgram /\ IndexNumber[2] = 1) =>
        IF 0 <= IndexNumber[1] /\ IndexNumber[1] < Len(IndexedArray)
        THEN /\ iresult.tag = "Ok"
             /\ IrEnvironmentGet(environment, "r") = Some(IndexedArray[IndexNumber[1] + 1].value)
        ELSE /\ iresult.tag = "Err"
             /\ iresult.kind = "IndexOutOfBounds"
             /\ iresult.arg = IndexNumber[1]

(***************************************************************************)
(* The checker on calls, conditionals and blocks                           *)
(***************************************************************************)
MaxArgs == 3

\* f0: fn() -> string, f1: fn(number) -> string, f2: fn(number, string) -> boolean,
\* g1: fn(...number) -> number, g2: fn(string, ...number) -> number
Callees ==
    [f0 |-> TFn(None, <<>>, TString),
     f1 |-> TFn(None, <<<<TNumber, FALSE>>>>, TString),
     f2 |-> TFn(None, <<<<TNumber, FALSE>>, <<TString, FALSE>>>>, TBoolean),
     g1 |-> TFn(None, <<<<TNumber, TRUE>>>>, TNumber),
     g2 |-> TFn(None, <<<<TString, FALSE>>, <<TNumber, TRUE>>>>, TNumber)]

RECURSIVE DeclareAll(_, _)
DeclareAll(declares, names) ==
    IF names = {} THEN declares
    ELSE LET name == CHOOSE n \in names : TRUE IN
         DeclareAll(DeclaredTypesSet(declares, name, Callees[name]), names \ {name})

TypingDeclares == DeclareAll(CheckerDeclares, DOMAIN Callees)

ArgumentPool == { Num(1), Str(<<104>>) }

ArityCalls ==
    { Call(Identifier(f), a) :
        f \in DOMAIN Callees, a \in UNION { [1..m -> ArgumentPool] : m \in 0..MaxArgs } }

\* a block of expression statements as the compiler lowers it: every
\* expression statement becomes an Expression instruction
ExpressionBlock(expressions) == Block([i \in 1..Len(expressions) |-> Expression(expressions[i])])

BranchValues == { Num(1), Str(<<120>>), Bool(TRUE) }

BranchPool ==
    { ExpressionBlock(<<v>>) : v \in BranchValues } \cup { Block(<<Return(v)>>) : v \in BranchValues }

IfCalls ==
    { If(c, consequence, alternative) :
        c \in { Bool(TRUE), Num(1) }, consequence \in BranchPool,
        alternative \in {None} \cup { Some(b) : b \in BranchPool } }

MaxPrefix == 1

\* the instructions a block is given before its last one
PrefixPool ==
    { Expression(Num(1)), Return(Str(<<120>>)), StoreName("u", Identifier("undeclared")), NoneInstruction }

LastPool ==
    { Return(v) : v \in BranchValues } \cup { StoreName("x", v) : v \in BranchValues }
        \cup { Expression(v) : v \in BranchValues } \cup { NoneInstruction }

BlockCalls ==
    { Block(<<>>) } \cup
    { Block(Append(prefix, last)) :
        prefix \in UNION { [1..k -> PrefixPool] : k \in 0..MaxPrefix }, last \in LastPool }

TypingCalls ==
    { [fn |-> "get_type_from_ir_expression", expression |-> e, declares |-> TypingDeclares,
       customs |-> CheckerCustoms, data_type |-> t] :
        e \in ArityCalls \cup IfCalls \cup BlockCalls, t \in { None, Some(TNumber) } }
    \cup
    { [fn |-> "custom_data_type", data_type |-> Callees[f], customs |-> CheckerCustoms] : f \in DOMAIN Callees }

InitTyping ==
    /\ chk_call \in TypingCalls
    /\ chk_result = Running
    /\ InterpIdle
    /\ ParserIdle
    /\ CompilerIdle
    /\ LexerIdle

SpecTyping == InitTyping /\ [][NextChecker]_vars

CheckedCall ==
    /\ CheckedExpression
    /\ chk_call.expression.tag = "Call"
    /\ chk_call.expression.function.tag = "Identifier"
    /\ chk_call.expression.function.name \in DOMAIN Callees

\* the arguments that have a parameter have that parameter's type
PairwiseMatched(parameters, arguments) ==
    \A i \in 1..Len(parameters) :
        i <= Len(arguments) => PrimitiveLiteralType(arguments[i]) = parameters[i][1]

\* C12 (call arity): a call whose pairwise-matched arguments have the
\* parameters' types is accepted with the function's return type iff m = n when
\* no parameter is spread, and iff m >= n when the last parameter is spread;
\* otherwise it is rejected with ExpectedArguments(n, m).
C12_CallArity ==
    CheckedCall =>
        LET callee == Callees[chk_call.expression.function.name]
            n == Len(callee.parameters)
            m == Len(chk_call.expression.arguments)
            no_spread == \A i \in 1..n : ~callee.parameters[i][2]
            last_spread == n > 0 /\ callee.parameters[n][2]
        IN
        PairwiseMatched(callee.parameters, chk_call.expression.arguments) =>
            IF (no_spread /\ m = n) \/ (last_spread /\ m >= n)
            THEN chk_result = TypeOk(callee.return_type)
            ELSE chk_result = TypeError("ExpectedArguments", <<n, m>>)

\* g1(1, 1, 1) has been accepted, where g1's only parameter is spread
C12_Witness ==
    /\ CheckedCall
    /\ chk_call.expression = Call(Identifier("g1"), <<Num(1), Num(1), Num(1)>>)
    /\ chk_result = TypeOk(TNumber)

\* C13 (if-branch symmetry): if (true) { 1 } else { "x" } fails with
\* ExpectedDataType(Number, String).
C13_IfBranchSymmetry ==
    (CheckedExpression
        /\ chk_call.expression = If(Bool(TRUE), ExpressionBlock(<<Num(1)>>), Some(ExpressionBlock(<<Str(<<120>>)>>)))) =>
        chk_result = TypeError("ExpectedDataType", <<TNumber, TString>>)

CheckedBlock == CheckedExpression /\ chk_call.expression.tag = "Block"

\* C14 (block typing): the type of a Block is the type of the expression of
\* its last instruction when that is a Return or a StoreName, and Boolean when
\* it is an Expression or a None or the block is empty; the instructions before
\* the last do not influence it.
C14_BlockTyping ==
    CheckedBlock =>
        LET block == chk_call.expression.block IN
        IF block # <<>> /\ block[Len(block)].tag \in {"Return", "StoreName"}
        THEN chk_result = TypeOk(PrimitiveLiteralType(block[Len(block)].expression))
        ELSE chk_result = TypeOk(TBoolean)

\* a block whose last instruction returns a number after an instruction that
\* returns a string has been typed
C14_Witness ==
    /\ CheckedBlock
    /\ chk_call.expression = Block(<<Return(Str(<<120>>)), Return(Num(1))>>)
    /\ chk_result = TypeOk(TNumber)

\* the same expression checked in the same scopes with no contextual type
WithoutContext ==
    get_type_from_ir_expression(chk_call.expression, chk_call.declares, chk_call.customs, None)

\* an array literal that is empty or whose elements are, at every depth, such
\* array literals: its elements give no element type
RECURSIVE GivesNoElementType(_)
GivesNoElementType(e) ==
    /\ IsArrayLiteral(e)
    /\ \A i \in 1..Len(e.value.elements) : GivesNoElementType(e.value.elements[i])

\* C15 (type preservation): when an expression checked with a contextual type
\* yields ok(T), the same expression checked without one yields ok(T) too,
\* unless it is an array literal that gives no element type, which without a
\* context yields UnknownArrayType.
C15_TypePreservation ==
    (CheckedExpression /\ chk_call.data_type.some /\ chk_result.tag = "Ok") =>
        IF GivesNoElementType(chk_call.expression)
        THEN WithoutContext = TypeError("UnknownArrayType", <<>>)
        ELSE WithoutContext = chk_result

\* an array literal has been accepted with a contextual type
C15_Witness ==
    /\ CheckedExpression
    /\ chk_call.data_type.some
    /\ chk_result.tag = "Ok"
    /\ IsArrayLiteral(chk_call.expression)

(***************************************************************************)
(* Constructs the compiler does not support                                *)
(***************************************************************************)
\* compile_program has ended on statement cpc, a type statement
EndedOnTypeStatement ==
    /\ cresult # Idle
    /\ cresult # Running
    /\ cpc <= Len(CompiledStatements)
    /\ CompiledStatements[cpc].tag = "TypeStatement"

\* C16 (unsupported constructs): compiling a program that holds a construct
\* the compiler does not support, here a type statement, returns an error
\* value; it neither aborts nor succeeds.
C16_UnsupportedIsError == EndedOnTypeStatement => cresult.tag = "Err"

(***************************************************************************)
(* sntk_core::tokenizer: the lexer on a string of characters.  A character *)
(* is its code point; the inputs are ASCII, where a byte offset and a      *)
(* character offset are the same number.                                   *)
(***************************************************************************)
NUL == 0
LF == 10
QUOTE == 34
BACKSLASH == 92
UNDERSCORE == 95

\* char::is_whitespace, is_alphabetic, is_numeric, is_alphanumeric on ASCII
is_whitespace(c) == c \in {9, 10, 11, 12, 13, 32}
is_alphabetic(c) == c \in (65..90) \cup (97..122)
is_numeric(c) == c \in 48..57
is_alphanumeric(c) == is_alphabetic(c) \/ is_numeric(c)

Token(token_type, position) == [token_type |-> token_type, position |-> position]
ILLEGAL(c) == [t |-> "ILLEGAL", c |-> <<c>>]

LexOk(token, lx) == [tag |-> "Ok", token |-> token, lexer |-> lx]
LexPanic(why) == [tag |-> "Panic", why |-> why]

LexerDefault ==
    [input |-> <<>>, position |-> 0, read_position |-> 0, current_char |-> NUL,
     current_position |-> <<1, 0>>]

read_char(lx) ==
    [lx EXCEPT !.current_char = IF lx.read_position >= Len(lx.input) THEN NUL
                                ELSE lx.input[lx.read_position + 1],
               !.position = lx.read_position,
               !.read_position = lx.read_position + 1,
               !.current_position = <<@[1], @[2] + 1>>]

LexerNew(input) == read_char([LexerDefault EXCEPT !.input = input])

peek_char(lx) ==
    IF lx.read_position >= Len(lx.input) THEN NUL ELSE lx.input[lx.read_position + 1]

\* whitespace skipped with the column reset at a newline and the line kept
RECURSIVE skip_whitespaceKeepsLine(_)
skip_whitespaceKeepsLine(lx) ==
    IF is_whitespace(lx.current_char)
    THEN skip_whitespaceKeepsLine(read_char(IF lx.current_char = LF
                                            THEN [lx EXCEPT !.current_position = <<@[1], 0>>]
                                            ELSE lx))
    ELSE lx

RECURSIVE skip_whitespace(_)
skip_whitespace(lx) ==
    IF is_whitespace(lx.current_char)
    THEN skip_whitespace(read_char(IF lx.current_char = LF
                                   THEN [lx EXCEPT !.current_position = <<@[1] + 1, 0>>]
                                   ELSE lx))
    ELSE lx

\* &input[from..to]
Slice(input, from, to) == SubSeq(input, from + 1, to)

\* str::replace of the two characters `\` c by the character with
RECURSIVE Replace(_, _, _)
Replace(s, c, with) ==
    IF Len(s) < 2 THEN s
    ELSE IF s[1] = BACKSLASH /\ s[2] = c THEN <<with>> \o Replace(SubSeq(s, 3, Len(s)), c, with)
    ELSE <<s[1]>> \o Replace(Tail(s), c, with)

\* the macro replace_all! as read_identifier calls it
replace_all(s) ==
    Replace(Replace(Replace(Replace(Replace(s, 114, 13), 116, 9), 110, LF), QUOTE, QUOTE),
            BACKSLASH, BACKSLASH)

\* the while loop of read_identifier
RECURSIVE IdentifierEnd(_)
IdentifierEnd(lx) ==
    IF is_alphanumeric(lx.current_char) \/ lx.current_char = UNDERSCORE
    THEN IdentifierEnd(read_char(lx))
    ELSE lx

read_identifier(lx) ==
    [value |-> replace_all(Slice(lx.input, lx.position, IdentifierEnd(lx).position)),
     lexer |-> IdentifierEnd(lx)]

\* the while loop of read_number
RECURSIVE NumberEnd(_, _)
NumberEnd(lx, has_dot) ==
    IF lx.current_char = 46 THEN (IF has_dot THEN lx ELSE NumberEnd(read_char(lx), TRUE))
    ELSE IF is_numeric(lx.current_char) THEN NumberEnd(read_char(lx), has_dot)
    ELSE lx

\* str::parse::<f64> on digits with at most one dot: the fraction n / d
RECURSIVE ParseF64(_, _, _, _)
ParseF64(s, n, d, after_dot) ==
    IF s = <<>> THEN Norm(n, d)
    ELSE IF Head(s) = 46 THEN ParseF64(Tail(s), n, d, TRUE)
    ELSE ParseF64(Tail(s), 10 * n + (Head(s) - 48), IF after_dot THEN 10 * d ELSE d, after_dot)

read_number(lx) ==
    [value |-> ParseF64(Slice(lx.input, lx.position, NumberEnd(lx, FALSE).position), 0, 1, FALSE),
     lexer |-> NumberEnd(lx, FALSE)]

\* the while loop of read_string
RECURSIVE StringEnd(_)
StringEnd(lx) ==
    IF peek_char(lx) # QUOTE /\ lx.current_char # NUL THEN StringEnd(read_char(lx)) ELSE lx

\* the slice panics when it ends beyond the input
read_string(lx) ==
    IF read_char(StringEnd(lx)).position > Len(lx.input)
    THEN LexPanic("byte index out of bounds")
    ELSE [tag |-> "Ok",
          value |-> Slice(lx.input, lx.position + 1, read_char(StringEnd(lx)).position),
          lexer |-> read_char(StringEnd(lx))]

\* impl From<T> for Tokens
TokensFrom(s) ==
    CASE s = <<108, 101, 116>> -> Tok("Let")
      [] s = <<105, 102>> -> Tok("If")
      [] s = <<101, 108, 115, 101>> -> Tok("Else")
      [] s = <<114, 101, 116, 117, 114, 110>> -> Tok("Return")
      [] s = <<102, 110>> -> Tok("Function")
      [] OTHER -> IDENT(s)

\* the one-character arms of match_token!
SingleCharTokens ==
    (43 :> "Plus") @@ (45 :> "Minus") @@ (42 :> "Asterisk") @@ (47 :> "Slash") @@ (60 :> "LT")
        @@ (62 :> "GT") @@ (44 :> "Comma") @@ (59 :> "Semicolon") @@ (58 :> "Colon")
        @@ (40 :> "LParen") @@ (41 :> "RParen") @@ (123 :> "LBrace") @@ (125 :> "RBrace")
        @@ (91 :> "LBracket") @@ (93 :> "RBracket")

\* next!(n_token => t_token; e_token); the token takes its position after the read
NextChar(lx, n_token, t_token, e_token) ==
    IF peek_char(lx) = n_token
    THEN LexOk(Token(Tok(t_token), read_char(lx).current_position), read_char(lx))
    ELSE LexOk(Token(Tok(e_token), lx.current_position), lx)

\* let token = match_token! { .. }
MatchToken(lx) ==
    CASE lx.current_char = QUOTE ->
            IF read_string(lx).tag = "Panic" THEN read_string(lx)
            ELSE LexOk(Token(StringTok(read_string(lx).value), read_string(lx).lexer.current_position),
                       read_string(lx).lexer)
      [] lx.current_char = 61 -> NextChar(lx, 61, "EQ", "Assign")
      [] lx.current_char = 33 -> NextChar(lx, 61, "NEQ", "Bang")
      [] lx.current_char \in DOMAIN SingleCharTokens ->
            LexOk(Token(Tok(SingleCharTokens[lx.current_char]), lx.current_position), lx)
      [] lx.current_char = NUL -> LexOk(Token(EOF, lx.current_position), lx)
      [] OTHER -> LexOk(Token(ILLEGAL(lx.current_char), lx.current_position), lx)

\* the match on current_char that ends next_token
DispatchToken(matched) ==
    IF matched.tag = "Panic" THEN matched
    ELSE IF is_alphabetic(matched.lexer.current_char)
    THEN LexOk(Token(TokensFrom(read_identifier(matched.lexer).value),
                     read_identifier(matched.lexer).lexer.current_position),
               read_identifier(matched.lexer).lexer)
    ELSE IF is_numeric(matched.lexer.current_char)
    THEN LexOk(Token(NumberTok(read_number(matched.lexer).value),
                     read_number(matched.lexer).lexer.current_position),
               read_number(matched.lexer).lexer)
    ELSE LexOk(matched.token, read_char(matched.lexer))

Lexer_next_token(lx) == DispatchToken(MatchToken(skip_whitespace(lx)))

(***************************************************************************)
(* The inputs the lexer is run on                                          *)
(***************************************************************************)
MaxChars == 3
MaxEofs == 2

\* a _ 1 space newline " \ = ! < > -
LexerAlphabet == {97, UNDERSCORE, 49, 32, LF, QUOTE, BACKSLASH, 61, 33, 60, 62, 45}

\* "a\"a"   "\n"   "a\\"   let   if   else_   _x1   1.5   1.5.1   a<LF>+   +%
LongInputs ==
    { <<QUOTE, 97, BACKSLASH, QUOTE, 97, QUOTE>>, <<QUOTE, BACKSLASH, 110, QUOTE>>,
      <<QUOTE, 97, BACKSLASH, BACKSLASH, QUOTE>>,
      <<108, 101, 116>>, <<105, 102>>, <<101, 108, 115, 101, UNDERSCORE>>,
      <<UNDERSCORE, 120, 49>>, <<49, 46, 53>>, <<49, 46, 53, 46, 49>>, <<97, LF, 43>>, <<43, 37>> }

LexerInputs == UNION { [1..n -> LexerAlphabet] : n \in 0..MaxChars } \cup LongInputs

InitLexer ==
    /\ lexer \in { LexerNew(input) : input \in LexerInputs }
    /\ tokens = <<>>
    /\ lstatus = Running
    /\ InterpIdle
    /\ CheckerIdle
    /\ ParserIdle
    /\ CompilerIdle

\* the tokens returned so far that are EOF
EofsReturned == Cardinality({ i \in 1..Len(tokens) : tokens[i].token_type = EOF })

\* a call of next_token returns a token
NextTokenOk ==
    /\ lstatus = Running
    /\ EofsReturned < MaxEofs
    /\ Lexer_next_token(lexer).tag = "Ok"
    /\ lexer' = Lexer_next_token(lexer).lexer
    /\ tokens' = Append(tokens, Lexer_next_token(lexer).token)
    /\ UNCHANGED <<lstatus, NotLexer>>

\* a call of next_token panics
NextTokenPanic ==
    /\ lstatus = Running
    /\ EofsReturned < MaxEofs
    /\ Lexer_next_token(lexer).tag = "Panic"
    /\ lstatus' = Lexer_next_token(lexer)
    /\ UNCHANGED <<lexer, tokens, NotLexer>>

NextLexer == NextTokenOk \/ NextTokenPanic

SpecLexer == InitLexer /\ [][NextLexer]_vars

(***************************************************************************)
(* Properties of the lexer                                                 *)
(***************************************************************************)
\* C17 (position monotonicity): over the tokens that successive calls of
\* next_token return, the line never decreases, and from a token to the next
\* one on the same line the column never decreases; after whitespace that ends
\* in a newline the column has restarted: the character after it has column 1.
C17_PositionMonotonicity ==
    lstatus # Idle =>
        /\ \A i \in 1..(Len(tokens) - 1) :
              /\ tokens[i].position[1] <= tokens[i + 1].position[1]
              /\ tokens[i].position[1] = tokens[i + 1].position[1] =>
                    tokens[i].position[2] <= tokens[i + 1].position[2]
        /\ (/\ skip_whitespace(lexer).position > lexer.position
            /\ lexer.input[skip_whitespace(lexer).position] = LF) =>
              skip_whitespace(lexer).current_position[2] = 1

\* a token on line 1, then after a newline a token at line 2, column 1, and a
\* further token on line 2
C17_Witness ==
    /\ Len(tokens) >= 3
    /\ tokens[1].position[1] = 1
    /\ tokens[2].position = <<2, 1>>
    /\ tokens[3].position[1] = 2
    /\ tokens[3].position[2] > 1

\* the two-character operators and their tokens:  ==  !=  <=  >=  ->
TwoCharOperators ==
    (<<61, 61>> :> "EQ") @@ (<<33, 61>> :> "NEQ") @@ (<<60, 61>> :> "LTE") @@ (<<62, 61>> :> "GTE")
        @@ (<<45, 62>> :> "Arrow")

\* C18 (two-character operators): with ==, !=, <=, >= or -> at the cursor,
\* next_token consumes both characters and returns the one token EQ, NEQ, LTE,
\* GTE or Arrow.
C18_TwoCharOperators ==
    (lstatus # Idle /\ Len(tokens) = 1 /\ Len(lexer.input) >= 2
        /\ SubSeq(lexer.input, 1, 2) \in DOMAIN TwoCharOperators) =>
        /\ tokens[1].token_type = Tok(TwoCharOperators[SubSeq(lexer.input, 1, 2)])
        /\ lexer.position = 2

\* the whole of s is one run: an alphabetic character or an underscore, then
\* alphanumeric characters and underscores
IsIdentifierRun(s) ==
    /\ s # <<>>
    /\ is_alphabetic(s[1]) \/ s[1] = UNDERSCORE
    /\ \A i \in 2..Len(s) : is_alphanumeric(s[i]) \/ s[i] = UNDERSCORE

\* C19 (identifier lexing): an input that is one run of identifier characters
\* starting with an alphabetic character or an underscore is returned as
\* exactly one token, the identifier or the keyword it spells, and EOF follows.
C19_IdentifierLexing ==
    (lstatus # Idle /\ IsIdentifierRun(lexer.input)) =>
        /\ Len(tokens) >= 1 => tokens[1].token_type = TokensFrom(lexer.input)
        /\ Len(tokens) >= 2 => tokens[2].token_type = EOF

\* the characters an escaped body denotes: \n \r \t \" \\ replaced
RECURSIVE Unescape(_)
Unescape(s) ==
    IF s = <<>> THEN <<>>
    ELSE IF s[1] = BACKSLASH /\ Len(s) >= 2 /\ s[2] \in {110, 114, 116, QUOTE, BACKSLASH}
    THEN <<CASE s[2] = 110 -> LF [] s[2] = 114 -> 13 [] s[2] = 116 -> 9 [] OTHER -> s[2]>>
             \o Unescape(SubSeq(s, 3, Len(s)))
    ELSE <<s[1]>> \o Unescape(Tail(s))

\* the offset of the first unescaped quote of s at or after offset i, or 0
RECURSIVE UnescapedQuote(_, _)
UnescapedQuote(s, i) ==
    IF i > Len(s) THEN 0
    ELSE IF s[i] = BACKSLASH THEN UnescapedQuote(s, i + 2)
    ELSE IF s[i] = QUOTE THEN i
    ELSE UnescapedQuote(s, i + 1)

\* s is one string literal: an opening quote, a body, and the first unescaped
\* quote as its last character
IsStringLiteral(s) == Len(s) >= 2 /\ s[1] = QUOTE /\ UnescapedQuote(s, 2) = Len(s)

\* C20 (string lexing): a string literal runs from its opening quote to the
\* first unescaped quote, and the value of the token is its body with the
\* escape sequences \n \r \t \" \\ replaced by the characters they denote.
C20_StringLexing ==
    (lstatus # Idle /\ IsStringLiteral(lexer.input) /\ Len(tokens) >= 1) =>
        tokens[1].token_type = StringTok(Unescape(SubSeq(lexer.input, 2, Len(lexer.input) - 1)))

(***************************************************************************)
(* Missing semicolons                                                      *)
(***************************************************************************)
\* the tokens of the pool that end an expression and are no semicolon
AfterExpression == { IDENT("a"), NumberTok(F64(1)), Tok("RParen"), Tok("Comma"), Tok("Return"), Tok("If") }

\* the input is `a` or `return a` and then no semicolon: nothing, or a token
\* that does not continue the expression
MissingSemicolon(input) ==
    \E head \in { <<IDENT("a")>>, <<Tok("Return"), IDENT("a")>> } :
        /\ Len(input) >= Len(head)
        /\ SubSeq(input, 1, Len(head)) = head
        /\ Len(input) > Len(head) => input[Len(head) + 1] \in AfterExpression

\* the token at the place where the semicolon was expected
TokenAfterExpression(input) ==
    LET n == IF input[1] = Tok("Return") THEN 2 ELSE 1 IN
    IF Len(input) > n THEN input[n + 1] ELSE EOF

\* C21 (missing semicolon): when a statement is not followed by `;` the
\* parser records an error that names Semicolon as the expected token and,
\* as the token seen, the token that follows the statement's expression.
C21_MissingSemicolon ==
    (presult # Idle /\ MissingSemicolon(parser.lexer.input) /\ parser.errors # <<>>) =>
        parser.errors[1] = ParsingError("EXPECTED_NEXT_TOKEN",
                                        <<Tok("Semicolon"), TokenAfterExpression(parser.lexer.input)>>)

(***************************************************************************)
(* Blocks and function bodies: the interpreter run on `r = { b }` and on   *)
(* `r = fn() { b }()`, and on lists that hold a Return                     *)
(***************************************************************************)
MaxBlockLen == 3

BlockInstructionPool ==
    { Return(Num(1)), Return(Identifier("x")), Return(Identifier("undefined")),
      StoreName("x", Num(2)), Expression(Num(3)), NoneInstruction }

Blocks == UNION { [1..n -> BlockInstructionPool] : n \in 0..MaxBlockLen }

BlockPrograms ==
    { <<StoreName("r", Block(b))>> : b \in Blocks }
      \cup { <<StoreName("r", Call(Literal(Function(<<>>, b, TNumber, None)), <<>>))>> : b \in Blocks }
      \cup { <<Return(e), StoreName("r", Num(1))>> : e \in { Identifier("undefined"), Num(1) } }

InitBlock ==
    /\ instructions \in BlockPrograms
    /\ environment = IrEnvironmentNew(None)
    /\ ipc = 1
    /\ iresult = Running
    /\ out = <<>>
    /\ CheckerIdle
    /\ ParserIdle
    /\ CompilerIdle
    /\ LexerIdle

SpecBlock == InitBlock /\ [][NextInterp]_vars

\* the program is `r = { b }` or `r = fn() { b }()`
IsBlockProgram ==
    /\ Len(instructions) = 1
    /\ instructions[1].tag = "StoreName"
    /\ instructions[1].expression.tag \in {"Block", "Call"}

\* the instructions b of the block or of the function body
BlockBody ==
    IF instructions[1].expression.tag = "Block" THEN instructions[1].expression.block
    ELSE instructions[1].expression.function.value.body

\* the block binds x before its last instruction
BindsX == \E i \in 1..(Len(BlockBody) - 1) : BlockBody[i].tag = "StoreName"

\* C22 (block protocol value): a Block or a function body yields the value of
\* the expression of its last instruction when that is a Return, and
\* Boolean(false) when it is a StoreName, an Expression or a None or the list
\* is empty; a Return before the last instruction neither ends the list nor
\* gives its value.
C22_BlockValue ==
    (Finished /\ IsBlockProgram) =>
        LET last == BlockBody[Len(BlockBody)] IN
        IF BlockBody # <<>> /\ last.tag = "Return" THEN
            CASE last.expression = Num(1) ->
                    IrEnvironmentGet(environment, "r") = Some(Number(F64(1)))
              [] last.expression = Identifier("x") /\ BindsX ->
                    IrEnvironmentGet(environment, "r") = Some(Number(F64(2)))
              [] OTHER -> iresult.tag = "Err" /\ iresult.kind = "UndefinedVariable"
        ELSE IrEnvironmentGet(environment, "r") = Some(Boolean(FALSE))

\* { return 1; x = 2; return x; } has yielded 2: the first Return did not end
\* the block
C22_Witness ==
    /\ Finished
    /\ instructions = <<StoreName("r", Block(<<Return(Num(1)), StoreName("x", Num(2)), Return(Identifier("x"))>>))>>
    /\ IrEnvironmentGet(environment, "r") = Some(Number(F64(2)))

\* C23 (Return evaluates its expression): a runtime error in the expression of
\* a Return, the last instruction of its list or not, ends evaluation with
\* that error.
C23_ReturnEvaluates ==
    (Finished /\ Len(instructions) = 2 /\ instructions[1] = Return(Identifier("undefined"))) =>
        iresult.tag = "Err" /\ iresult.kind = "UndefinedVariable"

(***************************************************************************)
(* Captured environments: the interpreter run on programs that make a      *)
(* closure, bind a global afterwards and call the closure                  *)
(***************************************************************************)
MaxCapture == 4

\* fn() -> number { return y; }
FnReturnY == Function(<<>>, <<Return(Identifier("y"))>>, TNumber, None)
\* fn() -> fn() -> number { return fn() -> number { return y; }; }
FnMakeY == Function(<<>>, <<Return(Literal(FnReturnY))>>, TFn0(TNumber), None)

CaptureInstructionPool ==
    { StoreName("make", Literal(FnMakeY)),
      StoreName("g", Call(Identifier("make"), <<>>)),
      StoreName("y", Num(1)),
      StoreName("r", Call(Identifier("g"), <<>>)) }

CapturePrograms == UNION { [1..n -> CaptureInstructionPool] : n \in 0..MaxCapture }

InitCapture ==
    /\ instructions \in CapturePrograms
    /\ environment = IrEnvironmentNew(None)
    /\ ipc = 1
    /\ iresult = Running
    /\ out = <<>>
    /\ CheckerIdle
    /\ ParserIdle
    /\ CompilerIdle
    /\ LexerIdle

SpecCapture == InitCapture /\ [][NextInterp]_vars

\* the chain of frames env with its outermost frame, a copy of the global
\* frame taken when the chain was made, replaced by the frame live
RECURSIVE WithLiveRoot(_, _)
WithLiveRoot(env, live) ==
    IF env.parent.some THEN [env EXCEPT !.parent = Some(WithLiveRoot(env.parent.v, live))]
    ELSE live

\* the next instruction calls g, a function value that holds a captured environment
AboutToCallCaptured ==
    /\ iresult = Running
    /\ ipc >= 1
    /\ ipc <= Len(instructions)
    /\ instructions[ipc] = StoreName("r", Call(Identifier("g"), <<>>))
    /\ IrEnvironmentGet(environment, "g").some
    /\ IrEnvironmentGet(environment, "g").v.tag = "Function"
    /\ IrEnvironmentGet(environment, "g").v.environment.some

\* C24 (snapshot frames are equivalent to reference-linked frames): when a
\* captured environment is used for lookup, the lookup gives the same result
\* in the copy of the parent frames taken at creation as in the live parent
\* frames: no frame has received a set since the copy was taken that the
\* lookup can see.
C24_SnapshotEquivalence ==
    AboutToCallCaptured =>
        IrEnvironmentGet(IrEnvironmentGet(environment, "g").v.environment.v, "y")
            = IrEnvironmentGet(WithLiveRoot(IrEnvironmentGet(environment, "g").v.environment.v, environment), "y")

(***************************************************************************)
(* The three scope chains (IrEnvironment, DeclaredTypes, CustomTypes)      *)
(* driven by the same calls: set on the current frame, new for a child     *)
(***************************************************************************)
MaxDepth == 2

ScopeNames == {"x", "y"}

\* the values bound: the numbers 1 and 2 in the environment, the types number
\* and string in the type scopes
ScopeValues == { [value |-> Number(F64(1)), data_type |-> TNumber],
                 [value |-> Number(F64(2)), data_type |-> TString] }

RECURSIVE Depth(_)
Depth(env) == IF env.parent.some THEN 1 + Depth(env.parent.v) ELSE 0

InitScopes ==
    /\ instructions = <<>>
    /\ environment = IrEnvironmentNew(None)
    /\ ipc = 0
    /\ iresult = Idle
    /\ out = <<>>
    /\ chk_call = [fn |-> "scopes", declares |-> DeclaredTypesNew(None), customs |-> CustomTypesNew(None)]
    /\ chk_result = Idle
    /\ ParserIdle
    /\ CompilerIdle
    /\ LexerIdle

\* set(name, value) on the current frame of each chain
ScopeSet ==
    /\ chk_call.fn = "scopes"
    /\ \E name \in ScopeNames, bound \in ScopeValues :
          /\ environment' = IrEnvironmentSet(environment, name, bound.value)
          /\ chk_call' = [chk_call EXCEPT !.declares = DeclaredTypesSet(@, name, bound.data_type),
                                          !.customs = CustomTypesSet(@, name, bound.data_type)]
    /\ UNCHANGED <<instructions, ipc, iresult, out, chk_result, pvars, kvars, lvars>>

\* new(Some(current)): a child frame of each chain becomes the current one
ScopeNew ==
    /\ chk_call.fn = "scopes"
    /\ Depth(environment) < MaxDepth
    /\ environment' = IrEnvironmentNew(Some(environment))
    /\ chk_call' = [chk_call EXCEPT !.declares = DeclaredTypesNew(Some(@)),
                                    !.customs = CustomTypesNew(Some(@))]
    /\ UNCHANGED <<instructions, ipc, iresult, out, chk_result, pvars, kvars, lvars>>

NextScopes == ScopeSet \/ ScopeNew

SpecScopes == InitScopes /\ [][NextScopes]_vars

\* the maps of a chain, the current frame first
RECURSIVE EnvironmentFrames(_)
EnvironmentFrames(env) ==
    <<env.values>> \o (IF env.parent.some THEN EnvironmentFrames(env.parent.v) ELSE <<>>)

RECURSIVE TypeFrames(_)
TypeFrames(scope) ==
    <<scope.types>> \o (IF scope.parent.some THEN TypeFrames(scope.parent.v) ELSE <<>>)

\* the binding of name in the first frame that binds it
Nearest(frames, name) ==
    IF \E k \in 1..Len(frames) : name \in DOMAIN frames[k]
    THEN Some(frames[CHOOSE k \in 1..Len(frames) :
                         /\ name \in DOMAIN frames[k]
                         /\ \A j \in 1..(k - 1) : name \notin DOMAIN frames[j]][name])
    ELSE None

GetsNearest ==
    chk_call # Idle /\ chk_call.fn = "scopes" =>
        \A name \in ScopeNames \cup {"z"} :
            /\ IrEnvironmentGet(environment, name) = Nearest(EnvironmentFrames(environment), name)
            /\ DeclaredTypesGet(chk_call.declares, name) = Nearest(TypeFrames(chk_call.declares), name)
            /\ CustomTypesGet(chk_call.customs, name) = Nearest(TypeFrames(chk_call.customs), name)

\* a step keeps the parent frames, or makes the old chain the parent
KeepsParents ==
    chk_call # Idle /\ chk_call.fn = "scopes" =>
        /\ environment'.parent = environment.parent \/ environment'.parent = Some(environment)
        /\ chk_call'.declares.parent = chk_call.declares.parent
              \/ chk_call'.declares.parent = Some(chk_call.declares)
        /\ chk_call'.customs.parent = chk_call.customs.parent
              \/ chk_call'.customs.parent = Some(chk_call.customs)

\* C25 (environment chain discipline): in each of the three chains get(name)
\* returns the binding of the nearest frame that binds name, the current
\* frame first, and none only when no frame binds it; set(name, v) changes the
\* current frame's map only and leaves the map of every parent unchanged.
C25_ChainDiscipline == []GetsNearest /\ [][KeepsParents]_vars

\* x is bound in a parent frame and, after the child was made, bound to
\* something else in the child
C25_Witness ==
    /\ chk_call # Idle
    /\ chk_call.fn = "scopes"
    /\ Depth(environment) = 1
    /\ environment.parent.v.values = [n \in {"x"} |-> Number(F64(1))]
    /\ environment.values = [n \in {"x"} |-> Number(F64(2))]
    /\ DeclaredTypesGet(chk_call.declares, "x") = Some(TString)
    /\ DeclaredTypesGet(chk_call.declares.parent.v, "x") = Some(TNumber)

(***************************************************************************)
(* Termination of the lexer                                                *)
(***************************************************************************)
\* a call that returns a token other than EOF has moved the cursor forward, and
\* a call made after EOF was returned returns EOF again
ConsumesOrEnds ==
    tokens' # tokens =>
        /\ tokens'[Len(tokens')].token_type # EOF => lexer'.position > lexer.position
        /\ EofsReturned >= 1 => tokens'[Len(tokens')].token_type = EOF

\* every call made has returned a token, and once more calls have returned
\* than the input has characters, one of the tokens is EOF
ReturnsEofInTime ==
    lstatus # Idle =>
        /\ lstatus = Running
        /\ Len(tokens) > Len(lexer.input) => EofsReturned >= 1

\* C26 (lexer termination): for every finite input, repeated calls of
\* next_token return the end-of-input token after finitely many calls, every
\* call made before the end of input consumes at least one character, and
\* every call after that returns end-of-input too.
C26_LexerTermination == []ReturnsEofInTime /\ [][ConsumesOrEnds]_vars

(***************************************************************************)
(* Termination of the parser                                               *)
(***************************************************************************)
\* the tokens the cursor has not passed yet: those the lexer still holds and
\* the ones in current_token and peek_token
Remaining(p) ==
    (Len(p.lexer.input) - p.lexer.position)
        + (IF p.peek_token # EOF THEN 1 ELSE 0) + (IF p.current_token # EOF THEN 1 ELSE 0)

\* a turn of the loop of parse_program moves the cursor forward
Advances == parser' # parser => Remaining(parser') < Remaining(parser)

\* the recursion of parse_expression that never consumes a token
Diverged == presult.tag = "Abort" /\ presult.why = "stack overflow"

\* C27 (parser termination): parse_program terminates on every finite token
\* sequence: every turn of its loop and every recursive call of
\* parse_expression moves the token cursor forward before parsing again, the
\* call for the operand of a prefix - or ! included, so no run ends in an
\* unbounded recursion.
C27_ParserTermination == [](~Diverged) /\ [][Advances]_vars

(***************************************************************************)
(* The argument list of a parsed call                                      *)
(***************************************************************************)
\* C28 (call argument list): parsing a call f(e1, ..., en) gives a
\* CallExpression whose argument list has exactly n entries, the i-th being
\* the parse of ei, in source order, none repeated and none dropped; n = 0
\* for f().
C28_CallArgumentList ==
    \A names \in ArgumentNames :
        (presult = [tag |-> "Ok"] /\ parser.lexer.input = CallInput(names)) =>
            program.statements =
                <<ExpressionStatement(
                     CallExpression(AstIdentifier("f"),
                                    [i \in 1..Len(names) |-> AstIdentifier(names[i])]))>>

(***************************************************************************)
(* Prefix and Infix expressions, checked and then evaluated                *)
(***************************************************************************)
OperandPool == { Num(1), Bool(TRUE), Str(<<115>>) }

OperatorExpressions ==
    { Prefix(operator, right) : operator \in {"Minus", "Bang"}, right \in OperandPool }
        \cup { Infix(left, operator, right) :
                 left \in OperandPool, operator \in InfixTokens, right \in OperandPool }

\* r = <expression>;
OperatorPrograms == { <<StoreName("r", e)>> : e \in OperatorExpressions }

InitOperators ==
    /\ instructions \in OperatorPrograms
    /\ environment = IrEnvironmentNew(None)
    /\ ipc = 1
    /\ iresult = Running
    /\ out = <<>>
    /\ CheckerIdle
    /\ ParserIdle
    /\ CompilerIdle
    /\ LexerIdle

SpecOperators == InitOperators /\ [][NextInterp]_vars

\* the type the checker gives the expression of the program, no type expected
CheckedType ==
    get_type_from_ir_expression(instructions[1].expression, DeclaredTypesNew(None),
                                CustomTypesNew(None), None)

\* the DataType of a primitive LiteralValue
PrimitiveType(value) ==
    CASE value.tag = "Number" -> TNumber
      [] value.tag = "String" -> TString
      [] value.tag = "Boolean" -> TBoolean

\* C29 (operator soundness between checker and interpreter): a Prefix or Infix
\* expression over primitive operands that get_type_from_ir_expression
\* accepts evaluates, with IrInterpreter, to a value of the checked type and
\* raises neither InvalidOperator nor InvalidOperands.
C29_OperatorSoundness ==
    (Finished /\ instructions \in OperatorPrograms /\ CheckedType.tag = "Ok") =>
        /\ iresult = [tag |-> "Ok"]
        /\ PrimitiveType(IrEnvironmentGet(environment, "r").v) = CheckedType.data_type

(***************************************************************************)
(* Blocks and calls that bind names: what the caller's environment keeps   *)
(***************************************************************************)
MaxIsolation == 3

\* fn(a: number) -> number { x = a; y = 2; return x; }
FnShadow ==
    Function(<<Parameter("a", TNumber, FALSE)>>,
             <<StoreName("x", Identifier("a")), StoreName("y", Num(2)), Return(Identifier("x"))>>,
             TNumber, None)

\* fn() -> fn(number) -> number { return FnShadow; }
FnMakeShadow ==
    Function(<<>>, <<Return(Literal(FnShadow))>>, TFn(None, <<TNumber>>, TNumber), None)

\* { x = 5; y = 6; return y; }
BindingBlock == Block(<<StoreName("x", Num(5)), StoreName("y", Num(6)), Return(Identifier("y"))>>)

IsolationInstructionPool ==
    { StoreName("x", Num(1)),
      StoreName("f", Literal(FnShadow)),
      StoreName("g", Call(Literal(FnMakeShadow), <<>>)),
      StoreName("r", Call(Identifier("f"), <<Num(3)>>)),
      StoreName("r", Call(Identifier("g"), <<Num(3)>>)),
      StoreName("r", BindingBlock),
      Expression(BindingBlock) }

IsolationPrograms == UNION { [1..n -> IsolationInstructionPool] : n \in 0..MaxIsolation }

InitIsolation ==
    /\ instructions \in IsolationPrograms
    /\ environment = IrEnvironmentNew(None)
    /\ ipc = 1
    /\ iresult = Running
    /\ out = <<>>
    /\ CheckerIdle
    /\ ParserIdle
    /\ CompilerIdle
    /\ LexerIdle

SpecIsolation == InitIsolation /\ [][NextInterp]_vars

\* the names a step may bind: the name of the StoreName it executes
StoredBy(instruction) == IF instruction.tag = "StoreName" THEN {instruction.name} ELSE {}

\* the step evaluates a Block or a Call and comes back
EvaluatesBlockOrCall ==
    /\ iresult = Running
    /\ ipc <= Len(instructions)
    /\ ipc' = ipc + 1
    /\ instructions[ipc].tag \in {"StoreName", "Expression"}
    /\ instructions[ipc].expression.tag \in {"Block", "Call"}

\* but for the stored name, the interpreter's environment is what it was
KeepsEnvironment ==
    EvaluatesBlockOrCall =>
        /\ environment'.parent = environment.parent
        /\ DOMAIN environment'.values = DOMAIN environment.values \cup StoredBy(instructions[ipc])
        /\ \A n \in DOMAIN environment.values \ StoredBy(instructions[ipc]) :
              environment'.values[n] = environment.values[n]

\* C30 (scope isolation of Block and Call): after the interpreter evaluates a
\* Block expression or a Call its own environment is exactly what it was
\* before: the names bound by StoreName inside the block or function body and
\* the parameter bindings are not visible afterwards, and the captured
\* environment stored in the called function value is not modified.
C30_ScopeIsolation == [][KeepsEnvironment]_vars

\* x = 1; g = FnMakeShadow(); r = g(3); has run: r is 3, x is still 1, g still
\* holds its captured environment, and neither a nor y is bound
C30_Witness ==
    /\ iresult = Running
    /\ ipc = 4
    /\ instructions[3] = StoreName("r", Call(Identifier("g"), <<Num(3)>>))
    /\ IrEnvironmentGet(environment, "r") = Some(Number(F64(3)))
    /\ IrEnvironmentGet(environment, "x") = Some(Number(F64(1)))
    /\ IrEnvironmentGet(environment, "g").some
    /\ IrEnvironmentGet(environment, "g").v.environment = Some(IrEnvironmentNew(Some(IrEnvironmentNew(Some(IrEnvironmentSet(IrEnvironmentNew(None), "x", Number(F64(1))))))))
    /\ ~IrEnvironmentGet(environment, "a").some
    /\ ~IrEnvironmentGet(environment, "y").some

====
